---------------------------- MODULE Spec2Model ----------------------------
(***************************************************************************)
(* Behavioural model of two TrinityCore units:                             *)
(*   - CreatureAI (src/server/game/AI/CreatureAI.cpp): combat engagement,  *)
(*     evade entry, boundary containment and the boundary flood fill;      *)
(*   - GameObject (src/server/game/Entities/GameObject/GameObject.cpp):    *)
(*     the loot-state machine driven by GameObject::Update and the         *)
(*     despawn / respawn operations around it.                             *)
(* Each subsystem has its own specification (SpecAI, SpecFill, SpecGO);    *)
(* the variables of the other subsystems stay at their constructed value.  *)
(***************************************************************************)
EXTENDS Integers, Sequences, FiniteSets, TLC

VARIABLES
    \* ---- CreatureAI: the creature `me` and the record of the last handler
    me,             \* the owning creature's state (record, see MeInit)
    pre,            \* value of `me` when the last handler was entered
    op,             \* the last handler invoked on the AI, with its inputs
    calls,          \* collaborator / hook calls made by the last handler, in order
    los,            \* m_MoveInLineOfSight_locked and the running perception callbacks
    \* ---- CreatureAI: boundary and positions
    boundary,       \* _boundary: NoBoundary (nullptr) or a sequence of areas
    negateBoundary, \* _negateBoundary
    mePos,          \* me->GetPosition()
    homePos,        \* me->GetHomePosition()
    vb,             \* the running / last call of VisualizeBoundary
    \* ---- GameObject: one instance and what surrounds it
    go,             \* the instance: fields, template, stored respawn record, effects
    goOp,           \* the last operation on the instance, with its inputs
    now,            \* GameTime::GetGameTime(), in seconds
    masterRespawn   \* stored respawn time of the linked master spawn (0: alive)

aiVars   == <<me, pre, op, calls, los>>
fillVars == <<boundary, negateBoundary, mePos, homePos, vb>>
goVars   == <<go, goOp, now, masterRespawn>>
vars     == <<me, pre, op, calls, los, boundary, negateBoundary, mePos, homePos, vb,
              go, goOp, now, masterRespawn>>

-----------------------------------------------------------------------------
(* Bounds of the model *)

\* BOUNDARY_VISUALIZE_FAILSAFE_LIMIT is 750 in the source; the grid is scaled
\* down to this many cells on each side of the seed.
FailsafeScale == 2

\* Game time runs from 0 to MaxTime seconds. The durations of the source are
\* scaled to this horizon: WEEK (604800 s) to WeekScale seconds.
MaxTime == 4
WeekScale == 3

\* At most this many MoveInLineOfSight_Safe calls arrive while one perception
\* callback of the creature is running.
MaxReentry == 2

\* Game time of the trap specification runs from 1 to MaxTrapTime seconds.
MaxTrapTime == 12

-----------------------------------------------------------------------------
(* CreatureAI: engagement and evade                                         *)

\* Milliseconds per second (Common.h).
IN_MILLISECONDS == 1000

NoUnit == "none"
Units  == {"player", "npc"}

ReactStates == {"REACT_PASSIVE", "REACT_DEFENSIVE", "REACT_AGGRESSIVE"}

\* State of the creature right after the AI is constructed for it.
MeInit(react, vehicle, owner) ==
    [ alive    |-> TRUE,      \* me->IsAlive()
      evade    |-> FALSE,     \* UNIT_STATE_EVADE, me->IsInEvadeMode()
      engaged  |-> FALSE,     \* me->IsEngaged(): threat list not empty
      distracted |-> FALSE,   \* UNIT_STATE_DISTRACTED
      inCombat |-> FALSE,     \* me->IsInCombat()
      victim   |-> NoUnit,    \* me->GetVictim()
      react    |-> react,     \* me->HasReactState(..)
      vehicle  |-> vehicle,   \* me->GetVehicle() != nullptr
      owner    |-> owner,     \* me->GetCharmerOrOwner() != nullptr
      motion   |-> "idle" ]   \* top movement generator of the MotionMaster

\* Unit::EngageWithTarget(who): threat is added and both units enter combat.
EngageWithTarget(c) == [c EXCEPT !.engaged = TRUE, !.inCombat = TRUE]

\* The call me->EngageWithTarget(who) as it is recorded in `calls`.
EngageCall(who) ==
    IF who = "player" THEN "EngageWithTarget(player)" ELSE "EngageWithTarget(npc)"

\* The list of calls CreatureAI::_EnterEvadeMode makes before it tests
\* IsInEvadeMode (lines 208-217).
EvadeCleanupCalls ==
    << "RemoveAurasOnEvade", "ClearAllThreat", "CombatStop", "SetLootRecipient",
       "ResetPlayerDamageReq", "SetLastDamagedTime", "SetCannotReachTarget",
       "DoNotReacquireTarget" >>

\* Effect of those calls on the creature: threat cleared, combat and attack stopped.
EvadeCleanup(c) ==
    [c EXCEPT !.engaged = FALSE, !.inCombat = FALSE, !.victim = NoUnit]

\* Mutant: the IsInEvadeMode test of line 219 is left out.
EnterEvadeModeGuard_NoEvadeTest(c) ==
    IF ~c.alive
    THEN [ok |-> FALSE, c |-> c, calls |-> << >>]
    ELSE [ok    |-> TRUE,
          c     |-> EvadeCleanup(c),
          calls |-> EvadeCleanupCalls]

\* CreatureAI::_EnterEvadeMode: [ok, c, calls]
EnterEvadeModeGuard(c) ==
    IF ~c.alive
    THEN [ok |-> FALSE, c |-> c, calls |-> << >>]
    ELSE [ok    |-> ~c.evade,
          c     |-> EvadeCleanup(c),
          calls |-> EvadeCleanupCalls]

\* Variant: an owned creature is sent home like an unowned one.
EnterEvadeMode_OwnerEvades(c) ==
    LET g == EnterEvadeModeGuard(c) IN
    IF ~g.ok
    THEN [c |-> g.c, calls |-> g.calls]
    ELSE IF g.c.vehicle
         THEN [c |-> g.c, calls |-> g.calls \o <<"Reset">>]
         ELSE [c     |-> [g.c EXCEPT !.evade = TRUE, !.motion = "home"],
               calls |-> g.calls \o <<"AddUnitState(UNIT_STATE_EVADE)",
                                      "MoveTargetedHome", "Reset">>]

\* Variant: Reset is fired only where a movement command was issued.
EnterEvadeMode_VehicleNoReset(c) ==
    LET g == EnterEvadeModeGuard(c) IN
    IF ~g.ok
    THEN [c |-> g.c, calls |-> g.calls]
    ELSE IF g.c.vehicle
         THEN [c |-> g.c, calls |-> g.calls]
         ELSE IF g.c.owner
              THEN [c     |-> [g.c EXCEPT !.motion = "follow"],
                    calls |-> g.calls \o <<"MotionMaster.Clear", "MoveFollow", "Reset">>]
              ELSE [c     |-> [g.c EXCEPT !.evade = TRUE, !.motion = "home"],
                    calls |-> g.calls \o <<"AddUnitState(UNIT_STATE_EVADE)",
                                           "MoveTargetedHome", "Reset">>]

\* CreatureAI::EnterEvadeMode: [c, calls]
EnterEvadeMode(c) ==
    LET g == EnterEvadeModeGuard(c) IN
    IF ~g.ok
    THEN [c |-> g.c, calls |-> g.calls]
    ELSE IF g.c.vehicle
         THEN [c |-> g.c, calls |-> g.calls \o <<"Reset">>]
         ELSE IF g.c.owner
              THEN [c     |-> [g.c EXCEPT !.motion = "follow"],
                    calls |-> g.calls \o <<"MotionMaster.Clear", "MoveFollow", "Reset">>]
              ELSE [c     |-> [g.c EXCEPT !.evade = TRUE, !.motion = "home"],
                    calls |-> g.calls \o <<"AddUnitState(UNIT_STATE_EVADE)",
                                           "MoveTargetedHome", "Reset">>]


\* Variant: MoveInLineOfSight without the IsEngaged test of line 115.
MoveInLineOfSight_NoEngagedTest(c, who, canStartAttack) ==
    IF c.react = "REACT_AGGRESSIVE" /\ canStartAttack
    THEN [c |-> EngageWithTarget(c), calls |-> <<EngageCall(who)>>]
    ELSE [c |-> c, calls |-> << >>]

\* CreatureAI::MoveInLineOfSight(who); canStartAttack is me->CanStartAttack(who, false).
MoveInLineOfSight(c, who, canStartAttack) ==
    IF c.engaged
    THEN [c |-> c, calls |-> << >>]
    ELSE IF c.react = "REACT_AGGRESSIVE" /\ canStartAttack
         THEN [c |-> EngageWithTarget(c), calls |-> <<EngageCall(who)>>]
         ELSE [c |-> c, calls |-> << >>]

\* Variant: the owner's combat is joined only by a creature not yet engaged.
OnOwnerCombatInteraction_SkipsEngaged(c, target, canStartAttack) ==
    IF target = NoUnit \/ ~c.alive \/ c.engaged
    THEN [c |-> c, calls |-> << >>]
    ELSE IF c.react # "REACT_PASSIVE" /\ canStartAttack
         THEN [c |-> EngageWithTarget(c), calls |-> <<EngageCall(target)>>]
         ELSE [c |-> c, calls |-> << >>]

\* CreatureAI::_OnOwnerCombatInteraction(target) (lines 122-129);
\* canStartAttack is me->CanStartAttack(target, true).
OnOwnerCombatInteraction(c, target, canStartAttack) ==
    IF target = NoUnit \/ ~c.alive
    THEN [c |-> c, calls |-> << >>]
    ELSE IF c.react # "REACT_PASSIVE" /\ canStartAttack
         THEN [c |-> EngageWithTarget(c), calls |-> <<EngageCall(target)>>]
         ELSE [c |-> c, calls |-> << >>]

\* MoveDistract(5 * IN_MILLISECONDS, ..): the time the creature stays distracted.
AlertDistractTime == 5 * IN_MILLISECONDS

\* What TriggerAlert reads from the creature and the unit besides the fields
\* of `me`: me has UNIT_STATE_CONFUSED, STUNNED or FLEEING; me->IsCivilian();
\* me->IsHostileTo(who); me->_IsTargetAcceptable(who).
AlertInput(impaired, civilian, hostile, acceptable) ==
    [impaired |-> impaired, civilian |-> civilian, hostile |-> hostile,
     acceptable |-> acceptable]

\* Nothing stands in the way of the alert, or exactly one thing does.
AlertInputs ==
    { AlertInput(FALSE, FALSE, TRUE, TRUE),
      AlertInput(TRUE, FALSE, TRUE, TRUE),
      AlertInput(FALSE, TRUE, TRUE, TRUE),
      AlertInput(FALSE, FALSE, FALSE, TRUE),
      AlertInput(FALSE, FALSE, TRUE, FALSE) }

\* The calls TriggerAlert makes when it alerts.
AlertCalls == <<"SendAIReaction(AI_REACTION_ALERT)", "MoveDistract">>

\* Variant: a creature in REACT_PASSIVE is alerted too.
TriggerAlert_AlertsPassive(c, who, in) ==
    IF who # "player"
    THEN [c |-> c, calls |-> << >>, time |-> 0]
    ELSE IF c.engaged \/ in.impaired \/ c.distracted
    THEN [c |-> c, calls |-> << >>, time |-> 0]
    ELSE IF in.civilian \/ ~in.hostile \/ ~in.acceptable
    THEN [c |-> c, calls |-> << >>, time |-> 0]
    ELSE [c     |-> [c EXCEPT !.distracted = TRUE, !.motion = "distract"],
          calls |-> AlertCalls,
          time  |-> AlertDistractTime]

\* CreatureAI::TriggerAlert(who) (lines 132-151): [c, calls, time]; time is
\* the duration handed to MoveDistract. me is a Creature, so its type id is
\* TYPEID_UNIT.
TriggerAlert(c, who, in) ==
    IF who # "player"
    THEN [c |-> c, calls |-> << >>, time |-> 0]
    ELSE IF c.engaged \/ in.impaired \/ c.distracted
    THEN [c |-> c, calls |-> << >>, time |-> 0]
    ELSE IF in.civilian \/ c.react = "REACT_PASSIVE" \/ ~in.hostile \/ ~in.acceptable
    THEN [c |-> c, calls |-> << >>, time |-> 0]
    ELSE [c     |-> [c EXCEPT !.distracted = TRUE, !.motion = "distract"],
          calls |-> AlertCalls,
          time  |-> AlertDistractTime]

\* m_MoveInLineOfSight_locked with the record of the running perception
\* callbacks: depth is the number of MoveInLineOfSight bodies on the stack,
\* invoked the number of bodies started since the outermost call was made,
\* attempts / skipped the nested calls made / returned at once since then.
LosIdle ==
    [locked |-> FALSE, depth |-> 0, invoked |-> 0, attempts |-> 0, skipped |-> 0,
     who |-> NoUnit]

\* Variant: MoveInLineOfSight_Safe without the test of the lock (line 106).
SafeEntry_NoLockTest(l) ==
    [l EXCEPT !.locked = TRUE, !.depth = @ + 1,
              !.invoked = IF l.depth = 0 THEN 1 ELSE @ + 1]

\* CreatureAI::MoveInLineOfSight_Safe up to the call of MoveInLineOfSight
\* (lines 106-109): return at once when the lock is set, else take the lock
\* and start the body.
SafeEntry(l) ==
    IF l.locked
    THEN [l EXCEPT !.skipped = @ + 1]
    ELSE [l EXCEPT !.locked = TRUE, !.depth = @ + 1,
                   !.invoked = IF l.depth = 0 THEN 1 ELSE @ + 1]

\* CreatureAI::MoveInLineOfSight_Safe after the body returned (line 110).
SafeReturn(l) == [l EXCEPT !.locked = FALSE, !.depth = @ - 1]

\* Variant: a passive creature that still has a victim leaves combat through
\* EnterEvadeMode instead of only stopping its attack.
UpdateVictim_PassiveEvades(c, selected, focusing) ==
    IF ~c.engaged
    THEN [c |-> c, calls |-> << >>, ret |-> FALSE]
    ELSE IF c.react # "REACT_PASSIVE"
         THEN IF selected # NoUnit /\ ~focusing /\ selected # c.victim
              THEN [c     |-> [c EXCEPT !.victim = selected, !.motion = "chase"],
                    calls |-> <<"AttackStart">>,
                    ret   |-> TRUE]
              ELSE [c |-> c, calls |-> << >>, ret |-> c.victim # NoUnit]
         ELSE LET e == EnterEvadeMode(c) IN
              [c     |-> e.c,
               calls |-> <<"EnterEvadeMode(EVADE_REASON_NO_HOSTILES)">> \o e.calls,
               ret   |-> FALSE]

\* Variant: the IsEngaged test of line 181 is left out.
UpdateVictim_NoEngagedTest(c, selected, focusing) ==
    IF c.react # "REACT_PASSIVE"
    THEN IF selected # NoUnit /\ ~focusing /\ selected # c.victim
         THEN [c     |-> [c EXCEPT !.victim = selected, !.motion = "chase"],
               calls |-> <<"AttackStart">>,
               ret   |-> TRUE]
         ELSE [c |-> c, calls |-> << >>, ret |-> c.victim # NoUnit]
    ELSE IF ~c.inCombat
         THEN LET e == EnterEvadeMode(c) IN
              [c     |-> e.c,
               calls |-> <<"EnterEvadeMode(EVADE_REASON_NO_HOSTILES)">> \o e.calls,
               ret   |-> FALSE]
         ELSE IF c.victim # NoUnit
              THEN [c |-> [c EXCEPT !.victim = NoUnit], calls |-> <<"AttackStop">>,
                    ret |-> TRUE]
              ELSE [c |-> c, calls |-> << >>, ret |-> TRUE]

\* CreatureAI::UpdateVictim: [c, calls, ret]. selected is me->SelectVictim(),
\* focusing is me->IsFocusing(nullptr, true).
UpdateVictim(c, selected, focusing) ==
    IF ~c.engaged
    THEN [c |-> c, calls |-> << >>, ret |-> FALSE]
    ELSE IF c.react # "REACT_PASSIVE"
         THEN IF selected # NoUnit /\ ~focusing /\ selected # c.victim
              THEN [c     |-> [c EXCEPT !.victim = selected, !.motion = "chase"],
                    calls |-> <<"AttackStart">>,
                    ret   |-> TRUE]
              ELSE [c |-> c, calls |-> << >>, ret |-> c.victim # NoUnit]
         ELSE IF ~c.inCombat
              THEN LET e == EnterEvadeMode(c) IN
                   [c     |-> e.c,
                    calls |-> <<"EnterEvadeMode(EVADE_REASON_NO_HOSTILES)">> \o e.calls,
                    ret   |-> FALSE]
              ELSE IF c.victim # NoUnit
                   THEN [c     |-> [c EXCEPT !.victim = NoUnit],
                         calls |-> <<"AttackStop">>,
                         ret   |-> TRUE]
                   ELSE [c |-> c, calls |-> << >>, ret |-> TRUE]

EvadeReasons == {"EVADE_REASON_NO_HOSTILES", "EVADE_REASON_BOUNDARY", "EVADE_REASON_OTHER"}

-----------------------------------------------------------------------------
(* CreatureAI: the handlers as actions                                      *)

\* A script or the core calls EnterEvadeMode(why).
Call_EnterEvadeMode ==
    /\ vb.pc = "idle" /\ los.depth = 0
    /\ \E why \in EvadeReasons :
         LET e == EnterEvadeMode(me) IN
         /\ pre' = me
         /\ op' = [name |-> "EnterEvadeMode", why |-> why]
         /\ me' = e.c
         /\ calls' = e.calls
    /\ UNCHANGED <<los, fillVars, goVars>>

\* A unit moves in line of sight while no perception callback of the creature
\* is running: MoveInLineOfSight_Safe(who) is entered (lines 104-108) and the
\* body MoveInLineOfSight(who) starts.
Call_MoveInLineOfSight_Safe ==
    /\ vb.pc = "idle" /\ los.depth = 0
    /\ \E who \in Units :
         los' = SafeEntry([los EXCEPT !.who = who, !.attempts = 0, !.skipped = 0])
    /\ UNCHANGED <<me, pre, op, calls, fillVars, goVars>>

\* A side effect of the running MoveInLineOfSight (a visibility update) calls
\* MoveInLineOfSight_Safe of the same creature again.
Nested_MoveInLineOfSight_Safe ==
    /\ los.depth >= 1 /\ los.attempts < MaxReentry
    /\ los' = [SafeEntry(los) EXCEPT !.attempts = @ + 1]
    /\ UNCHANGED <<me, pre, op, calls, fillVars, goVars>>

\* The running MoveInLineOfSight(who) finishes and MoveInLineOfSight_Safe
\* returns (lines 109-111).
Return_MoveInLineOfSight_Safe ==
    /\ los.depth >= 1
    /\ \E canStartAttack \in BOOLEAN :
         LET r == MoveInLineOfSight(me, los.who, canStartAttack) IN
         /\ pre' = me
         /\ op' = [name |-> "MoveInLineOfSight_Safe", who |-> los.who,
                   canStartAttack |-> canStartAttack]
         /\ me' = r.c
         /\ calls' = r.calls
    /\ los' = SafeReturn(los)
    /\ UNCHANGED <<fillVars, goVars>>

\* The owner of the creature attacks or is attacked:
\* _OnOwnerCombatInteraction(target).
Call_OnOwnerCombatInteraction ==
    /\ vb.pc = "idle" /\ los.depth = 0
    /\ me.owner
    /\ \E target \in Units \cup {NoUnit}, canStartAttack \in BOOLEAN :
         LET r == OnOwnerCombatInteraction(me, target, canStartAttack) IN
         /\ pre' = me
         /\ op' = [name |-> "OnOwnerCombatInteraction", target |-> target,
                   canStartAttack |-> canStartAttack]
         /\ me' = r.c
         /\ calls' = r.calls
    /\ UNCHANGED <<los, fillVars, goVars>>

\* A stealthed unit comes too close: TriggerAlert(who).
Call_TriggerAlert ==
    /\ vb.pc = "idle" /\ los.depth = 0
    /\ \E who \in Units \cup {NoUnit}, in \in AlertInputs :
         \* what is read of a unit that is no player does not matter
         /\ who # "player" => in = AlertInput(FALSE, FALSE, TRUE, TRUE)
         /\ LET r == TriggerAlert(me, who, in) IN
            /\ pre' = me
            /\ op' = [name |-> "TriggerAlert", who |-> who, in |-> in, time |-> r.time]
            /\ me' = r.c
            /\ calls' = r.calls
    /\ UNCHANGED <<los, fillVars, goVars>>

\* The AI tick of a combat script calls UpdateVictim().
Call_UpdateVictim ==
    /\ vb.pc = "idle" /\ los.depth = 0
    /\ \E selected \in Units \cup {NoUnit}, focusing \in BOOLEAN :
         \* SelectVictim picks from the threat list: none when it is empty
         /\ (selected # NoUnit) => me.engaged
         /\ LET r == UpdateVictim(me, selected, focusing) IN
            /\ pre' = me
            /\ op' = [name |-> "UpdateVictim", selected |-> selected,
                      focusing |-> focusing, ret |-> r.ret]
            /\ me' = r.c
            /\ calls' = r.calls
    /\ UNCHANGED <<los, fillVars, goVars>>

(* The creature's surroundings: collaborators outside CreatureAI.cpp.       *)

\* An enemy attacks the creature (threat subsystem); an evading creature is
\* not attackable.
Env_AttackedBy ==
    /\ vb.pc = "idle" /\ los.depth = 0
    /\ me.alive /\ ~me.evade /\ ~(me.engaged /\ me.inCombat)
    /\ \E who \in Units :
         /\ pre' = me
         /\ op' = [name |-> "AttackedBy"]
         /\ me' = EngageWithTarget(me)
         /\ calls' = << >>
    /\ UNCHANGED <<los, fillVars, goVars>>

\* The combat flag times out while threat entries remain.
Env_CombatDrops ==
    /\ vb.pc = "idle" /\ los.depth = 0
    /\ me.alive /\ me.inCombat
    /\ pre' = me
    /\ op' = [name |-> "CombatDrops"]
    /\ me' = [me EXCEPT !.inCombat = FALSE, !.victim = NoUnit]
    /\ calls' = << >>
    /\ UNCHANGED <<los, fillVars, goVars>>

\* The home movement generator finishes: UNIT_STATE_EVADE is removed.
Env_HomeReached ==
    /\ vb.pc = "idle" /\ los.depth = 0
    /\ me.alive /\ me.evade
    /\ pre' = me
    /\ op' = [name |-> "HomeReached"]
    /\ me' = [me EXCEPT !.evade = FALSE, !.motion = "idle"]
    /\ calls' = << >>
    /\ UNCHANGED <<los, fillVars, goVars>>

\* The distract movement runs out: UNIT_STATE_DISTRACTED is removed.
Env_DistractEnds ==
    /\ vb.pc = "idle" /\ los.depth = 0
    /\ me.alive /\ me.distracted
    /\ pre' = me
    /\ op' = [name |-> "DistractEnds"]
    /\ me' = [me EXCEPT !.distracted = FALSE,
                        !.motion = IF @ = "distract" THEN "idle" ELSE @]
    /\ calls' = << >>
    /\ UNCHANGED <<los, fillVars, goVars>>

\* A script changes the react state: me->SetReactState(react).
Env_SetReactState ==
    /\ vb.pc = "idle" /\ los.depth = 0
    /\ me.alive
    /\ \E react \in ReactStates \ {me.react} :
         /\ pre' = me
         /\ op' = [name |-> "SetReactState"]
         /\ me' = [me EXCEPT !.react = react]
         /\ calls' = << >>
    /\ UNCHANGED <<los, fillVars, goVars>>

\* The creature dies.
Env_Died ==
    /\ vb.pc = "idle" /\ los.depth = 0
    /\ me.alive
    /\ pre' = me
    /\ op' = [name |-> "Died"]
    /\ me' = [me EXCEPT !.alive = FALSE, !.engaged = FALSE, !.inCombat = FALSE,
                        !.distracted = FALSE,
                        !.victim = NoUnit, !.motion = "idle"]
    /\ calls' = << >>
    /\ UNCHANGED <<los, fillVars, goVars>>

\* The creature respawns.
Env_Respawned ==
    /\ vb.pc = "idle" /\ los.depth = 0
    /\ ~me.alive
    /\ pre' = me
    /\ op' = [name |-> "Respawned"]
    /\ me' = MeInit(me.react, me.vehicle, me.owner)
    /\ calls' = << >>
    /\ UNCHANGED <<los, fillVars, goVars>>

-----------------------------------------------------------------------------
(* CreatureAI: boundary containment                                         *)

BOUNDARY_VISUALIZE_STEP_SIZE == 1
BOUNDARY_VISUALIZE_FAILSAFE_LIMIT == FailsafeScale

\* _boundary == nullptr; a boundary that is set is [null |-> FALSE, areas |-> <<..>>]
NoBoundary == [null |-> TRUE, areas |-> << >>]

\* Area predicates (AreaBoundary objects). A position is a pair <<x, y>>.
Rect(x1, x2, y1, y2) == [kind |-> "rect", x1 |-> x1, x2 |-> x2, y1 |-> y1, y2 |-> y2]
HalfPlaneX(x1)       == [kind |-> "xge", x1 |-> x1]

Room      == Rect(-1, 1, -1, 1)          \* a closed room around the origin
Corridor  == Rect(-40, 40, 0, 0)         \* a corridor far longer than the failsafe limit
EastHalf  == HalfPlaneX(0)               \* an unbounded half plane
FarRoom   == Rect(7, 8, 7, 8)            \* a room nobody stands in
EdgeRoom  == Rect(-BOUNDARY_VISUALIZE_FAILSAFE_LIMIT, BOUNDARY_VISUALIZE_FAILSAFE_LIMIT,
                  -BOUNDARY_VISUALIZE_FAILSAFE_LIMIT, BOUNDARY_VISUALIZE_FAILSAFE_LIMIT)
                                         \* a room that ends exactly at the limit

\* AreaBoundary::IsWithinBoundary(pos)
IsWithinBoundary(area, pos) ==
    IF area.kind = "rect"
    THEN /\ area.x1 <= pos[1] /\ pos[1] <= area.x2
         /\ area.y1 <= pos[2] /\ pos[2] <= area.y2
    ELSE area.x1 <= pos[1]

\* The area lists a script may install with SetBoundary.
AreaLists ==
    { << >>, <<Room>>, <<Corridor>>, <<EastHalf>>, <<EdgeRoom>>, <<FarRoom>>,
      <<EastHalf, Room>>, <<Room, FarRoom>> }

Boundaries == { [null |-> FALSE, areas |-> a] : a \in AreaLists }

\* Where the creature, its home and a requesting unit may be.
Positions == { <<0, 0>>, <<1, 0>>, <<4, 0>> }

\* CreatureAI::IsInBounds(boundary, pos): the for loop over the areas, from index i.
RECURSIVE IsInBoundsFrom(_, _, _)
IsInBoundsFrom(b, i, pos) ==
    IF i > Len(b) THEN TRUE
    ELSE IF ~IsWithinBoundary(b[i], pos) THEN FALSE
    ELSE IsInBoundsFrom(b, i + 1, pos)

\* Mutant: the loop returns after the first area.
IsInBounds_FirstOnly(b, pos) ==
    IF Len(b) = 0 THEN TRUE ELSE IsWithinBoundary(b[1], pos)

IsInBounds(b, pos) == IsInBoundsFrom(b, 1, pos)

\* Mutant: the negate flag is applied to a missing boundary too.
IsInBoundaryOf_NegateNull(b, n, pos) == IsInBounds(b.areas, pos) # n

\* CreatureAI::IsInBoundary(who) for the AI's boundary b and negate flag n.
IsInBoundaryOf(b, n, pos) ==
    IF b.null THEN TRUE
    ELSE IsInBounds(b.areas, pos) # n

IsInBoundary(pos) == IsInBoundaryOf(boundary, negateBoundary, pos)

-----------------------------------------------------------------------------
(* CreatureAI::VisualizeBoundary                                            *)

\* owner == nullptr; a unit that is present is given by its position
NoOwner == << >>

\* no candidate seed is inside the boundary
NoPosition == << >>

\* The four neighbour offsets, in the order of the initializer list (line 268).
Offsets == << <<1, 0>>, <<0, 1>>, <<-1, 0>>, <<0, -1>> >>

\* Mutant: the failsafe test forgets the lower limit of the second axis.
BeyondFailsafe_NoLowerY(next) ==
    \/ next[1] > BOUNDARY_VISUALIZE_FAILSAFE_LIMIT
    \/ next[1] < -BOUNDARY_VISUALIZE_FAILSAFE_LIMIT
    \/ next[2] > BOUNDARY_VISUALIZE_FAILSAFE_LIMIT
    \/ next[2] < -BOUNDARY_VISUALIZE_FAILSAFE_LIMIT - 1

\* The failsafe test of line 271.
BeyondFailsafe(next) ==
    \/ next[1] > BOUNDARY_VISUALIZE_FAILSAFE_LIMIT
    \/ next[1] < -BOUNDARY_VISUALIZE_FAILSAFE_LIMIT
    \/ next[2] > BOUNDARY_VISUALIZE_FAILSAFE_LIMIT
    \/ next[2] < -BOUNDARY_VISUALIZE_FAILSAFE_LIMIT

\* World position of grid cell c for the seed position start (line 278).
CellPos(start, c) ==
    << start[1] + c[1] * BOUNDARY_VISUALIZE_STEP_SIZE,
       start[2] + c[2] * BOUNDARY_VISUALIZE_STEP_SIZE >>

\* Mutant: the creature's position is tried before the requesting unit's.
StartPosition_CreatureFirst(ownerPos) ==
    IF IsInBoundary(mePos) THEN mePos
    ELSE IF IsInBoundary(ownerPos) THEN ownerPos
    ELSE IF IsInBoundary(homePos) THEN homePos
    ELSE NoPosition

\* The seed of the fill: the three-level fallback of lines 249-259.
\* NoPosition when no candidate is inside the boundary.
StartPosition(ownerPos) ==
    IF IsInBoundary(ownerPos) THEN ownerPos
    ELSE IF IsInBoundary(mePos) THEN mePos
    ELSE IF IsInBoundary(homePos) THEN homePos
    ELSE NoPosition

VbIdle ==
    [ pc |-> "idle" ]

\* One pass of the for loop of lines 268-291 over the offsets from index i.
\* r carries Q, alreadyChecked, outOfBounds, boundsWarning, hasOutOfBoundsNeighbor
\* and classified (every IsInBoundary evaluation made, in order).
RECURSIVE CheckNeighbours(_, _, _, _)
CheckNeighbours(r, start, front, i) ==
    IF i > Len(Offsets) THEN r
    ELSE
      LET next == << front[1] + Offsets[i][1], front[2] + Offsets[i][2] >> IN
      IF BeyondFailsafe(next)
      THEN CheckNeighbours([r EXCEPT !.boundsWarning = TRUE], start, front, i + 1)
      ELSE IF next \notin r.alreadyChecked
           THEN IF IsInBoundary(CellPos(start, next))
                THEN CheckNeighbours(
                       [r EXCEPT !.Q = Append(@, next),
                                 !.alreadyChecked = @ \cup {next},
                                 !.classified = Append(@, next)],
                       start, front, i + 1)
                ELSE CheckNeighbours(
                       [r EXCEPT !.outOfBounds = @ \cup {next},
                                 !.hasOutOfBoundsNeighbor = TRUE,
                                 !.alreadyChecked = @ \cup {next},
                                 !.classified = Append(@, next)],
                       start, front, i + 1)
           ELSE IF next \in r.outOfBounds
                THEN CheckNeighbours([r EXCEPT !.hasOutOfBoundsNeighbor = TRUE],
                                     start, front, i + 1)
                ELSE CheckNeighbours(r, start, front, i + 1)

\* Mutant: a marker is summoned only next to an outside cell, fill or not.
LoopBody_IgnoresFill(v) ==
    LET front == Head(v.Q)
        r0 == [ Q |-> v.Q, alreadyChecked |-> v.alreadyChecked,
                outOfBounds |-> v.outOfBounds, boundsWarning |-> v.boundsWarning,
                hasOutOfBoundsNeighbor |-> FALSE, classified |-> v.classified ]
        r  == CheckNeighbours(r0, v.start, front, 1)
        summon == r.hasOutOfBoundsNeighbor
    IN [ v EXCEPT
           !.Q = Tail(r.Q),
           !.alreadyChecked = r.alreadyChecked,
           !.outOfBounds = r.outOfBounds,
           !.boundsWarning = r.boundsWarning,
           !.classified = r.classified,
           !.processed = Append(@, front),
           !.markers = IF summon
                       THEN Append(@, [ cell |-> front,
                                        notSelectable |-> ~r.hasOutOfBoundsNeighbor ])
                       ELSE @ ]

\* The body of the while loop (lines 266-301) for the running call v.
LoopBody(v) ==
    LET front == Head(v.Q)
        r0 == [ Q |-> v.Q, alreadyChecked |-> v.alreadyChecked,
                outOfBounds |-> v.outOfBounds, boundsWarning |-> v.boundsWarning,
                hasOutOfBoundsNeighbor |-> FALSE, classified |-> v.classified ]
        r  == CheckNeighbours(r0, v.start, front, 1)
        summon == v.fill \/ r.hasOutOfBoundsNeighbor
    IN [ v EXCEPT
           !.Q = Tail(r.Q),
           !.alreadyChecked = r.alreadyChecked,
           !.outOfBounds = r.outOfBounds,
           !.boundsWarning = r.boundsWarning,
           !.classified = r.classified,
           !.processed = Append(@, front),
           !.markers = IF summon
                       THEN Append(@, [ cell |-> front,
                                        notSelectable |-> ~r.hasOutOfBoundsNeighbor ])
                       ELSE @ ]

\* Mutant: the no-interior-point case is not reported and the fill is skipped
\* with the plain failure value.
EntryResult_NoInteriorAsFailure(owner) ==
    IF owner = NoOwner THEN "-1"
    ELSE IF boundary.null \/ boundary.areas = << >>
         THEN "LANG_CREATURE_MOVEMENT_NOT_BOUNDED"
    ELSE IF StartPosition(owner) = NoPosition
         THEN "-1"
    ELSE "running"

\* The early returns of lines 239-259 for the requesting unit `owner`:
\* the status returned, or "running" when the fill starts.
EntryResult(owner) ==
    IF owner = NoOwner THEN "-1"
    ELSE IF boundary.null \/ boundary.areas = << >>
         THEN "LANG_CREATURE_MOVEMENT_NOT_BOUNDED"
    ELSE IF StartPosition(owner) = NoPosition
         THEN "LANG_CREATURE_NO_INTERIOR_POINT_FOUND"
    ELSE "running"

\* Mutant: the warning is dropped from the return value.
ReturnCode_AlwaysSuccess(boundsWarning) == "0"

\* The return of line 303.
ReturnCode(boundsWarning) ==
    IF boundsWarning THEN "LANG_CREATURE_MOVEMENT_MAYBE_UNBOUNDED" ELSE "0"

\* Entry of VisualizeBoundary(duration, owner, fill): lines 239-263.
VisualizeBoundary_Enter ==
    /\ vb.pc = "idle"
    /\ \E owner \in Positions \cup {NoOwner}, fill \in BOOLEAN :
         LET args == [owner |-> owner, fill |-> fill] IN
         IF EntryResult(owner) # "running"
         THEN vb' = [pc |-> "done", args |-> args, result |-> EntryResult(owner),
                     markers |-> << >>]
         ELSE vb' = [ pc |-> "loop", args |-> args, result |-> "running",
                      fill |-> fill,
                      start |-> StartPosition(owner),
                      Q |-> << <<0, 0>> >>,
                      alreadyChecked |-> {}, outOfBounds |-> {},
                      boundsWarning |-> FALSE,
                      classified |-> << >>, processed |-> << >>,
                      markers |-> << >> ]
    /\ UNCHANGED <<boundary, negateBoundary, mePos, homePos>>
    /\ UNCHANGED <<aiVars, goVars>>

\* One iteration of the while loop (lines 264-302).
VisualizeBoundary_Loop ==
    /\ vb.pc = "loop"
    /\ vb.Q # << >>
    /\ vb' = LoopBody(vb)
    /\ UNCHANGED <<boundary, negateBoundary, mePos, homePos>>
    /\ UNCHANGED <<aiVars, goVars>>

\* The queue is empty: return of line 303.
VisualizeBoundary_Return ==
    /\ vb.pc = "loop"
    /\ vb.Q = << >>
    /\ vb' = [ vb EXCEPT !.pc = "done", !.result = ReturnCode(vb.boundsWarning) ]
    /\ UNCHANGED <<boundary, negateBoundary, mePos, homePos>>
    /\ UNCHANGED <<aiVars, goVars>>

\* The caller has read the result; the markers despawn after `duration`.
VisualizeBoundary_Forget ==
    /\ vb.pc = "done"
    /\ vb' = VbIdle
    /\ UNCHANGED <<boundary, negateBoundary, mePos, homePos>>
    /\ UNCHANGED <<aiVars, goVars>>

\* CreatureAI::SetBoundary(boundary, negateBoundaries)
SetBoundary ==
    /\ vb.pc = "idle"
    /\ \E b \in Boundaries \cup {NoBoundary}, n \in BOOLEAN :
         /\ boundary' = b
         /\ negateBoundary' = n
    /\ UNCHANGED <<mePos, homePos, vb>>
    /\ UNCHANGED <<aiVars, goVars>>

\* The creature moves.
Env_Relocate ==
    /\ vb.pc = "idle"
    /\ \E p \in Positions : mePos' = p
    /\ UNCHANGED <<boundary, negateBoundary, homePos, vb>>
    /\ UNCHANGED <<aiVars, goVars>>

-----------------------------------------------------------------------------
(* GameObject: state                                                        *)

\* WEEK and the bounds of urand(5, MINUTE) of line 659, scaled to the horizon.
WEEK == WeekScale
LinkedRespawnJitter == {1, 2}

\* FISHING_BOBBER_READY_TIME (5 s in the source), scaled.
FISHING_BOBBER_READY_TIME == 1

LootStates == {"GO_NOT_READY", "GO_READY", "GO_ACTIVATED", "GO_JUST_DEACTIVATED"}

GoStates == {"GO_STATE_ACTIVE", "GO_STATE_READY", "GO_STATE_ACTIVE_ALTERNATIVE"}

\* The go-states of a transport: moving, or stopped at one of its stop frames
\* (GO_STATE_TRANSPORT_STOPPED + frame).
GO_STATE_TRANSPORT_ACTIVE == 24
GO_STATE_TRANSPORT_STOPPED == 25
TransportStopped(stopFrame) ==
    << "GO_STATE_TRANSPORT_STOPPED", "GO_STATE_TRANSPORT_STOPPED + 1",
       "GO_STATE_TRANSPORT_STOPPED + 2" >>[stopFrame + 1]

\* The ordinal of a go-state (enum GOState)
GoStateOrdinal(state) ==
    CASE state = "GO_STATE_ACTIVE" -> 0
      [] state = "GO_STATE_READY" -> 1
      [] state = "GO_STATE_ACTIVE_ALTERNATIVE" -> 2
      [] state = "GO_STATE_TRANSPORT_ACTIVE" -> GO_STATE_TRANSPORT_ACTIVE
      [] OTHER -> GO_STATE_TRANSPORT_STOPPED
                    + (CHOOSE n \in 0..2 : TransportStopped(n) = state)

GameTimeMS == now * IN_MILLISECONDS

\* GameObjectTemplate and override data the code reads.
BaseTemplate ==
    [ type               |-> "GENERIC",
      hasModel           |-> TRUE,    \* m_model != nullptr
      autoCloseTime      |-> 0,       \* GetAutoCloseTime(), ms
      despawnAtAction    |-> FALSE,   \* IsDespawnAtAction()
      despawnPossibility |-> TRUE,    \* GetDespawnPossibility()
      charges            |-> 0,       \* GetCharges()
      cooldown           |-> 0,       \* GetCooldown(), s
      trapCharges        |-> 0,       \* trap.charges
      trapSpell          |-> FALSE,   \* trap.spell != 0
      trapRadius         |-> 0,       \* trap.radius
      trapCooldown       |-> 0,       \* trap.cooldown, s
      trapStartDelay     |-> 0,       \* trap.startDelay, s
      gooberSpell        |-> FALSE,   \* goober.spell != 0
      linkedTrap         |-> FALSE,   \* a linked trap object exists
      hasOverride        |-> FALSE,   \* GetGameObjectOverride() != nullptr
      overrideNoDespawn  |-> FALSE,   \* its Flags & GO_FLAG_NODESPAWN
      stopFrames         |-> 0,       \* transport: number of Timeto..floor > 0
      startOpen          |-> 0,       \* transport.startOpen
      animProgress       |-> 0 ]      \* GetGoAnimProgress()

GenericGO      == BaseTemplate
SpellCasterGO  == [BaseTemplate EXCEPT !.charges = 1, !.animProgress = 100]
DoorGO         == [BaseTemplate EXCEPT !.type = "DOOR", !.despawnPossibility = FALSE]
AutoCloseDoor  == [BaseTemplate EXCEPT !.type = "DOOR", !.autoCloseTime = 1000]
ButtonGO       == [BaseTemplate EXCEPT !.type = "BUTTON", !.autoCloseTime = 1000,
                                       !.despawnPossibility = FALSE]
ConsumableChest == [BaseTemplate EXCEPT !.type = "CHEST", !.despawnAtAction = TRUE,
                                        !.linkedTrap = TRUE]
ChestGO        == [BaseTemplate EXCEPT !.type = "CHEST"]
GooberGO       == [BaseTemplate EXCEPT !.type = "GOOBER", !.gooberSpell = TRUE]
BuildingGO     == [BaseTemplate EXCEPT !.type = "DESTRUCTIBLE_BUILDING"]
Elevator       == [BaseTemplate EXCEPT !.type = "TRANSPORT", !.stopFrames = 2]
OpenElevator   == [BaseTemplate EXCEPT !.type = "TRANSPORT", !.stopFrames = 2,
                                       !.startOpen = 2]
Tram           == [BaseTemplate EXCEPT !.type = "TRANSPORT"]
FlagGoober     == [BaseTemplate EXCEPT !.type = "GOOBER", !.hasOverride = TRUE,
                                       !.overrideNoDespawn = TRUE]
SnareTrap      == [BaseTemplate EXCEPT !.type = "TRAP", !.trapCharges = 0,
                                       !.trapSpell = TRUE, !.trapRadius = 10]
OneShotTrap    == [BaseTemplate EXCEPT !.type = "TRAP", !.trapCharges = 1,
                                       !.trapSpell = TRUE, !.trapRadius = 10,
                                       !.trapCooldown = 1]
BombTrap       == [BaseTemplate EXCEPT !.type = "TRAP", !.trapCharges = 2,
                                       !.trapSpell = TRUE]
FishingBobber  == [BaseTemplate EXCEPT !.type = "FISHINGNODE"]
\* More traps: a battleground buff (data2 == 0, data5 == 3), a trap without a
\* spell, a bomb without a spell.
BuffTrap       == [BaseTemplate EXCEPT !.type = "TRAP", !.trapCharges = 0,
                                       !.trapSpell = TRUE, !.trapCooldown = 3]
SilentTrap     == [BaseTemplate EXCEPT !.type = "TRAP", !.trapCharges = 1,
                                       !.trapRadius = 10]
DudBomb        == [BaseTemplate EXCEPT !.type = "TRAP", !.trapCharges = 2]

Templates ==
    { GenericGO, SpellCasterGO, DoorGO, AutoCloseDoor, ButtonGO, ConsumableChest, ChestGO,
      GooberGO, FlagGoober, SnareTrap, OneShotTrap, BombTrap, FishingBobber }

\* Variant: the constructor leaves the instance ready.
Constructed_StartsReady(tpl) ==
    [ tpl               |-> tpl,
      spawnId           |-> 0,               \* m_spawnId
      hasData           |-> FALSE,           \* m_goData != nullptr
      spawntimesecs     |-> 0,               \* m_goData->spawntimesecs
      groupCompat       |-> FALSE,           \* SPAWNGROUP_FLAG_COMPATIBILITY_MODE of the
                                             \* spawn group (no spawn data: not set)
      compat            |-> FALSE,           \* m_respawnCompatibilityMode
      spawnedByDefault  |-> TRUE,            \* m_spawnedByDefault
      respawnTime       |-> 0,               \* m_respawnTime
      respawnDelayTime  |-> 2,               \* m_respawnDelayTime
      despawnDelay      |-> 0,               \* m_despawnDelay, ms
      despawnRespawnTime |-> 0,              \* m_despawnRespawnTime, s
      lootState         |-> "GO_READY",      \* m_lootState
      lootStateUnit     |-> FALSE,           \* m_lootStateUnitGUID is set
      goState           |-> "GO_STATE_ACTIVE",  \* GetGoState()
      prevGoState       |-> "GO_STATE_ACTIVE",  \* m_prevGoState
      usetimes          |-> 0,               \* m_usetimes
      cooldownTime      |-> 0,               \* m_cooldownTime, ms
      spellId           |-> FALSE,           \* GetSpellId() != 0
      owner             |-> FALSE,           \* GetOwnerGUID() is set
      flagInUse         |-> FALSE,           \* GO_FLAG_IN_USE
      flagNoDespawn     |-> FALSE,           \* GO_FLAG_NODESPAWN
      flagDamaged       |-> FALSE,           \* GO_FLAG_DAMAGED
      flagDestroyed     |-> FALSE,           \* GO_FLAG_DESTROYED
      health            |-> 0,               \* m_goValue.Building.Health
      maxHealth         |-> 0,               \* m_goValue.Building.MaxHealth
      goAnimProgress    |-> 0,               \* GetGoAnimProgress() of the instance
      collision         |-> FALSE,           \* m_model collision enabled
      inWorld           |-> FALSE,           \* IsInWorld()
      link              |-> "none",          \* linked respawn target: none, self, other
      pool              |-> FALSE,           \* the spawn is part of a pool
      saveImmediately   |-> FALSE,           \* CONFIG_SAVE_RESPAWN_TIME_IMMEDIATELY
      store             |-> 0,               \* stored respawn time of this spawn (0: none)
      disposal          |-> "none",          \* none, removeList, pool
      lootTrace         |-> << "GO_NOT_READY" >>,  \* loot states passed in the last operation
      hookTrace         |-> << >>,           \* for each loot state assigned in the last
                                             \* operation: OnLootStateChanged was called
      expired           |-> FALSE,           \* the last operation was an Update that found
                                             \* the compatibility timer of a not-default
                                             \* instance expired
      wasExpired        |-> FALSE,           \* ... and so was the operation before it
      masterDead        |-> FALSE,           \* ... and GetLinkedRespawnTime was not 0
      timerDue          |-> FALSE,           \* the last operation was an Update that began
                                             \* with the compatibility timer, set by a
                                             \* deactivation, expired
      linkDead          |-> FALSE,           \* ... and with GetLinkedRespawnTime not 0
      due               |-> FALSE,           \* the last operation was an Update in which
                                             \* the delayed despawn came due
      scheduled         |-> FALSE,           \* m_respawnTime was set by a deactivation
      log               |-> << >> ]          \* calls made by the last operation

\* GameObject::GameObject (lines 114-144): the fields right after construction.
\* m_respawnDelayTime is 300 s in the source, scaled to 2 s.
Constructed(tpl) ==
    [ tpl               |-> tpl,
      spawnId           |-> 0,               \* m_spawnId
      hasData           |-> FALSE,           \* m_goData != nullptr
      spawntimesecs     |-> 0,               \* m_goData->spawntimesecs
      groupCompat       |-> FALSE,           \* SPAWNGROUP_FLAG_COMPATIBILITY_MODE of the
                                             \* spawn group (no spawn data: not set)
      compat            |-> FALSE,           \* m_respawnCompatibilityMode
      spawnedByDefault  |-> TRUE,            \* m_spawnedByDefault
      respawnTime       |-> 0,               \* m_respawnTime
      respawnDelayTime  |-> 2,               \* m_respawnDelayTime
      despawnDelay      |-> 0,               \* m_despawnDelay, ms
      despawnRespawnTime |-> 0,              \* m_despawnRespawnTime, s
      lootState         |-> "GO_NOT_READY",  \* m_lootState
      lootStateUnit     |-> FALSE,           \* m_lootStateUnitGUID is set
      goState           |-> "GO_STATE_ACTIVE",  \* GetGoState()
      prevGoState       |-> "GO_STATE_ACTIVE",  \* m_prevGoState
      usetimes          |-> 0,               \* m_usetimes
      cooldownTime      |-> 0,               \* m_cooldownTime, ms
      spellId           |-> FALSE,           \* GetSpellId() != 0
      owner             |-> FALSE,           \* GetOwnerGUID() is set
      flagInUse         |-> FALSE,           \* GO_FLAG_IN_USE
      flagNoDespawn     |-> FALSE,           \* GO_FLAG_NODESPAWN
      flagDamaged       |-> FALSE,           \* GO_FLAG_DAMAGED
      flagDestroyed     |-> FALSE,           \* GO_FLAG_DESTROYED
      health            |-> 0,               \* m_goValue.Building.Health
      maxHealth         |-> 0,               \* m_goValue.Building.MaxHealth
      goAnimProgress    |-> 0,               \* GetGoAnimProgress() of the instance
      collision         |-> FALSE,           \* m_model collision enabled
      inWorld           |-> FALSE,           \* IsInWorld()
      link              |-> "none",          \* linked respawn target: none, self, other
      pool              |-> FALSE,           \* the spawn is part of a pool
      saveImmediately   |-> FALSE,           \* CONFIG_SAVE_RESPAWN_TIME_IMMEDIATELY
      store             |-> 0,               \* stored respawn time of this spawn (0: none)
      disposal          |-> "none",          \* none, removeList, pool
      lootTrace         |-> << "GO_NOT_READY" >>,  \* loot states passed in the last operation
      hookTrace         |-> << >>,           \* for each loot state assigned in the last
                                             \* operation: OnLootStateChanged was called
      expired           |-> FALSE,           \* the last operation was an Update that found
                                             \* the compatibility timer of a not-default
                                             \* instance expired
      wasExpired        |-> FALSE,           \* ... and so was the operation before it
      masterDead        |-> FALSE,           \* ... and GetLinkedRespawnTime was not 0
      timerDue          |-> FALSE,           \* the last operation was an Update that began
                                             \* with the compatibility timer, set by a
                                             \* deactivation, expired
      linkDead          |-> FALSE,           \* ... and with GetLinkedRespawnTime not 0
      due               |-> FALSE,           \* the last operation was an Update in which
                                             \* the delayed despawn came due
      scheduled         |-> FALSE,           \* m_respawnTime was set by a deactivation
      log               |-> << >> ]          \* calls made by the last operation

Log(g, what) == [g EXCEPT !.log = Append(@, what)]

\* Start of an operation: the effect records are cleared.
Begin(g) ==
    [g EXCEPT !.log = << >>, !.lootTrace = << g.lootState >>, !.hookTrace = << >>,
              !.expired = FALSE, !.wasExpired = g.expired,
              !.masterDead = FALSE, !.due = FALSE,
              !.timerDue = FALSE, !.linkDead = FALSE]

\* bool isSpawned() const (GameObject.h)
isSpawned(g) ==
    \/ g.respawnDelayTime = 0
    \/ (g.respawnTime > 0 /\ ~g.spawnedByDefault)
    \/ (g.respawnTime = 0 /\ g.spawnedByDefault)

\* GameObject::IsTransport (lines 1311-1319)
IsTransport(g) == g.tpl.type \in {"TRANSPORT", "MAP_OBJ_TRANSPORT"}

\* GameObject::EnableCollision: nothing without a model
EnableCollision(g, enable) ==
    IF g.tpl.hasModel THEN [g EXCEPT !.collision = enable] ELSE g

\* A direct assignment m_lootState = state (lines 632, 637, 680): no hook.
AssignLootState(g, state) ==
    [g EXCEPT !.lootState = state, !.lootTrace = Append(@, state),
              !.hookTrace = Append(@, FALSE)]

\* GameObject::SetLootState(state, unit) (lines 2513-2535)
SetLootState_ButtonsExempt(g, state, unit) ==
    LET g1 == Log([g EXCEPT !.lootState = state,
                            !.lootTrace = Append(@, state),
                            !.hookTrace = Append(@, TRUE),
                            !.lootStateUnit = unit],
                  "OnLootStateChanged") IN
    IF g1.tpl.type \in {"DOOR", "BUTTON"} THEN g1
    ELSE IF g1.tpl.hasModel
         THEN [g1 EXCEPT !.collision =
                   \/ (g1.goState # "GO_STATE_READY"
                         /\ state \in {"GO_ACTIVATED", "GO_JUST_DEACTIVATED"})
                   \/ state = "GO_READY"]
         ELSE g1

SetLootState(g, state, unit) ==
    LET g1 == Log([g EXCEPT !.lootState = state,
                            !.lootTrace = Append(@, state),
                            !.hookTrace = Append(@, TRUE),
                            !.lootStateUnit = unit],
                  "OnLootStateChanged") IN
    IF g1.tpl.type = "DOOR" THEN g1
    ELSE IF g1.tpl.hasModel
         THEN [g1 EXCEPT !.collision =
                   \/ (g1.goState # "GO_STATE_READY"
                         /\ state \in {"GO_ACTIVATED", "GO_JUST_DEACTIVATED"})
                   \/ state = "GO_READY"]
         ELSE g1

\* GameObject::SetGoState(state) (lines 2542-2559)
SetGoState(g, state) ==
    LET g1 == Log([g EXCEPT !.goState = state], "OnStateChanged") IN
    IF g1.tpl.hasModel /\ ~IsTransport(g1)
    THEN IF ~g1.inWorld THEN g1
         ELSE EnableCollision(g1, state = "GO_STATE_READY")
    ELSE g1

\* GameObject::SetRespawnTime(respawn) (lines 1425-1431)
SetRespawnTime(g, respawn) ==
    LET g1 == [g EXCEPT !.respawnTime = IF respawn > 0 THEN now + respawn ELSE 0,
                        !.respawnDelayTime = IF respawn > 0 THEN respawn ELSE 0] IN
    IF respawn # 0 /\ ~g1.spawnedByDefault
    THEN Log(g1, "UpdateObjectVisibility")
    ELSE g1

\* GameObject::SaveRespawnTime(forceDelay, savetodb) (lines 1341-1354). The map's
\* SaveRespawnTimeDB / SaveRespawnTime write the spawn's respawn record.
SaveRespawnTime(g, forceDelay) ==
    IF g.hasData /\ (forceDelay # 0 \/ g.respawnTime > now) /\ g.spawnedByDefault
    THEN IF g.compat
         THEN Log([g EXCEPT !.store = g.respawnTime], "SaveRespawnTimeDB")
         ELSE Log([g EXCEPT !.store = IF forceDelay # 0 THEN now + forceDelay
                                      ELSE g.respawnTime],
                  "SaveRespawnTime")
    ELSE g

\* GameObject::RemoveFromOwner (lines 187-204)
RemoveFromOwner(g) ==
    IF ~g.owner THEN g ELSE Log([g EXCEPT !.owner = FALSE], "RemoveFromOwner")

\* SetFlags(goOverride->Flags) if an override exists (lines 917-918, 1026-1027)
ResetFlagsFromOverride(g) ==
    IF g.tpl.hasOverride
    THEN [g EXCEPT !.flagInUse = FALSE, !.flagNoDespawn = g.tpl.overrideNoDespawn,
                   !.flagDamaged = FALSE, !.flagDestroyed = FALSE]
    ELSE g

\* If a nearby linked trap exists, despawn it (lines 863-864, 1016-1017)
DespawnLinkedTrap(g) ==
    IF g.tpl.linkedTrap THEN Log(g, "linkedTrap->DespawnOrUnsummon") ELSE g

\* GameObject::Delete (lines 1013-1034)
Delete(g) ==
    LET g1 == DespawnLinkedTrap(g)
        g2 == SetLootState(g1, "GO_NOT_READY", FALSE)
        g3 == RemoveFromOwner(g2)
        g4 == Log(g3, "SendGameObjectDespawn")
        g5 == SetGoState(g4, "GO_STATE_READY")
        g6 == ResetFlagsFromOverride(g5)
    IN IF g6.spawnId # 0 /\ g6.pool
       THEN Log([g6 EXCEPT !.disposal = "pool"], "UpdatePool")
       ELSE Log([g6 EXCEPT !.disposal = "removeList"], "AddObjectToRemoveList")

\* Mutant: the latest delayed request replaces the pending one.
DespawnOrUnsummon_LatestWins(g, delay, forceRespawnTime) ==
    IF delay > 0
    THEN [g EXCEPT !.despawnDelay = delay, !.despawnRespawnTime = forceRespawnTime]
    ELSE LET g1 == IF g.hasData
                   THEN SaveRespawnTime(g, IF forceRespawnTime > 0 THEN forceRespawnTime
                                           ELSE g.spawntimesecs)
                   ELSE g
         IN Delete(g1)

\* GameObject::DespawnOrUnsummon(delay, forceRespawnTime) (lines 992-1011)
DespawnOrUnsummon(g, delay, forceRespawnTime) ==
    IF delay > 0
    THEN IF g.despawnDelay = 0 \/ g.despawnDelay > delay
         THEN [g EXCEPT !.despawnDelay = delay, !.despawnRespawnTime = forceRespawnTime]
         ELSE g
    ELSE LET g1 == IF g.hasData
                   THEN SaveRespawnTime(g, IF forceRespawnTime > 0 THEN forceRespawnTime
                                           ELSE g.spawntimesecs)
                   ELSE g
         IN Delete(g1)

\* GameObject::ResetDoorOrButton (lines 1513-1523)
ResetDoorOrButton(g) ==
    IF g.lootState \in {"GO_READY", "GO_JUST_DEACTIVATED"} THEN g
    ELSE LET g1 == [g EXCEPT !.flagInUse = FALSE]
             g2 == SetGoState(g1, g1.prevGoState)
             g3 == SetLootState(g2, "GO_JUST_DEACTIVATED", FALSE)
         IN [g3 EXCEPT !.cooldownTime = 0]

\* GameObject::SwitchDoorOrButton(activate, alternative) (lines 1562-1573)
SwitchDoorOrButton(g, activate, alternative) ==
    LET g1 == [g EXCEPT !.flagInUse = activate] IN
    IF g1.goState = "GO_STATE_READY"
    THEN SetGoState(g1, IF alternative THEN "GO_STATE_ACTIVE_ALTERNATIVE"
                        ELSE "GO_STATE_ACTIVE")
    ELSE SetGoState(g1, "GO_STATE_READY")

\* Mutant: the template's auto-close time is not consulted.
UseDoorOrButton_NoAutoClose(g, time_to_restore, alternative, user) ==
    IF g.lootState # "GO_READY" THEN g
    ELSE LET g1 == SwitchDoorOrButton(g, TRUE, alternative)
             g2 == SetLootState(g1, "GO_ACTIVATED", user)
         IN [g2 EXCEPT !.cooldownTime = IF time_to_restore # 0
                                        THEN GameTimeMS + time_to_restore ELSE 0]

\* Mutant: the door is switched in every loot state but GO_ACTIVATED.
UseDoorOrButton_AlsoWhenNotReady(g, time_to_restore, alternative, user) ==
    IF g.lootState = "GO_ACTIVATED" THEN g
    ELSE LET ttr == IF time_to_restore = 0 THEN g.tpl.autoCloseTime ELSE time_to_restore
             g1 == SwitchDoorOrButton(g, TRUE, alternative)
             g2 == SetLootState(g1, "GO_ACTIVATED", user)
         IN [g2 EXCEPT !.cooldownTime = IF ttr # 0 THEN GameTimeMS + ttr ELSE 0]

\* GameObject::UseDoorOrButton(time_to_restore, alternative, user) (lines 1525-1537)
UseDoorOrButton(g, time_to_restore, alternative, user) ==
    IF g.lootState # "GO_READY" THEN g
    ELSE LET ttr == IF time_to_restore = 0 THEN g.tpl.autoCloseTime ELSE time_to_restore
             g1 == SwitchDoorOrButton(g, TRUE, alternative)
             g2 == SetLootState(g1, "GO_ACTIVATED", user)
         IN [g2 EXCEPT !.cooldownTime = IF ttr # 0 THEN GameTimeMS + ttr ELSE 0]

\* GameObject::Respawn (lines 1433-1440)
\* Variant: a forced respawn hands the instance over to the respawn scheduler.
Respawn_SwitchesMode(g) ==
    IF g.spawnedByDefault /\ g.respawnTime > 0
    THEN Log([g EXCEPT !.respawnTime = now, !.store = 0, !.compat = FALSE],
             "RemoveRespawnTime")
    ELSE g

Respawn(g) ==
    IF g.spawnedByDefault /\ g.respawnTime > 0
    THEN Log([g EXCEPT !.respawnTime = now, !.store = 0], "RemoveRespawnTime")
    ELSE g

-----------------------------------------------------------------------------
(* GameObject: destructible buildings                                       *)

\* GameObject::SetTransportState(state, stopFrame) (lines 2570-2592), called
\* as its assertions require: on a transport, with GO_STATE_TRANSPORT_ACTIVE
\* or GO_STATE_TRANSPORT_STOPPED and a stop frame the transport has.  The
\* path progress of the transport is not part of the model.
SetTransportState(g, state, stopFrame) ==
    IF g.goState = state THEN g
    ELSE IF state = "GO_STATE_TRANSPORT_ACTIVE"
         THEN SetGoState(g, "GO_STATE_TRANSPORT_ACTIVE")
         ELSE SetGoState(g, TransportStopped(stopFrame))

\* Health of a destructible building at creation (line 369)
BuildingHealth == 20000
\* Health at and below which a building counts as damaged (lines 2411, 2455)
DamagedHealth == 10000

\* Range of int32, the type in which ModifyHealth adds (line 2385)
INT32_MAX == 2147483647
INT32_MIN == -INT32_MAX - 1

\* int32(a) + b as the build may compute it.  Inside the range it is the
\* sum.  Outside it the addition overflows a signed type, which the language
\* leaves undefined: the build either wraps modulo 2^32 or compares the
\* exact sum held in a wider register, which the end of the range stands for.
Int32Sums(a, b) ==
    IF b > 0 /\ a > INT32_MAX - b
    THEN {(a - INT32_MAX - 1) + (b - INT32_MAX - 1), INT32_MAX}
    ELSE IF b < 0 /\ a < INT32_MIN - b
         THEN {(a + INT32_MAX + 1) + (b + INT32_MAX + 1), INT32_MIN}
         ELSE {a + b}

DestructibleStates ==
    {"GO_DESTRUCTIBLE_INTACT", "GO_DESTRUCTIBLE_DAMAGED",
     "GO_DESTRUCTIBLE_DESTROYED", "GO_DESTRUCTIBLE_REBUILDING"}

\* GameObject::GetDestructibleState (GameObject.h), read at lines 2407, 2416
GetDestructibleState(g) ==
    IF g.flagDestroyed THEN "GO_DESTRUCTIBLE_DESTROYED"
    ELSE IF g.flagDamaged THEN "GO_DESTRUCTIBLE_DAMAGED"
    ELSE "GO_DESTRUCTIBLE_INTACT"

\* GameObject::SetDestructibleState(state, attackerOrHealer, setHealth)
\* (lines 2422-2511), called on a destructible building only (line 2425).
SetDestructibleState(g, state, setHealth) ==
    CASE state = "GO_DESTRUCTIBLE_INTACT" ->
            LET g1 == [g EXCEPT !.flagDamaged = FALSE, !.flagDestroyed = FALSE]
                g2 == IF setHealth
                      THEN [g1 EXCEPT !.health = g1.maxHealth, !.goAnimProgress = 255]
                      ELSE g1
            IN EnableCollision(g2, TRUE)
      [] state = "GO_DESTRUCTIBLE_DAMAGED" ->
            LET g1 == Log(Log(g, "EventInform(DamagedEvent)"), "AI.Damaged")
                g2 == [g1 EXCEPT !.flagDestroyed = FALSE, !.flagDamaged = TRUE]
                maxHealth == IF g2.maxHealth = 0 THEN 1 ELSE g2.maxHealth
            IN IF setHealth
               THEN [g2 EXCEPT !.health = DamagedHealth,
                               !.goAnimProgress = (DamagedHealth * 255) \div maxHealth]
               ELSE g2
      [] state = "GO_DESTRUCTIBLE_DESTROYED" ->
            LET g1 == Log(Log(g, "EventInform(DestroyedEvent)"), "AI.Destroyed")
                g2 == [g1 EXCEPT !.flagDamaged = FALSE, !.flagDestroyed = TRUE]
                g3 == IF setHealth
                      THEN [g2 EXCEPT !.health = 0, !.goAnimProgress = 0]
                      ELSE g2
            IN EnableCollision(g3, FALSE)
      [] state = "GO_DESTRUCTIBLE_REBUILDING" ->
            LET g1 == Log(g, "EventInform(RebuildingEvent)")
                g2 == [g1 EXCEPT !.flagDamaged = FALSE, !.flagDestroyed = FALSE]
                g3 == IF setHealth
                      THEN [g2 EXCEPT !.health = g2.maxHealth, !.goAnimProgress = 255]
                      ELSE g2
            IN EnableCollision(g3, TRUE)

\* The clamp of ModifyHealth (lines 2385-2390); `sum` is int32(Health) + change.
ClampHealth_NoUpperClamp(g, change, sum) ==
    IF sum <= 0 THEN 0 ELSE g.health + change

ClampHealth(g, change, sum) ==
    IF sum <= 0 THEN 0
    ELSE IF sum >= g.maxHealth THEN g.maxHealth
    ELSE g.health + change

\* GameObject::ModifyHealth(change, attackerOrHealer, spellId) (lines 2376-2420);
\* `sum` is the value the build computes for int32(Health) + change.
ModifyHealth(g, change, sum) ==
    IF g.maxHealth = 0 \/ change = 0 THEN g
    ELSE IF change < 0 /\ g.health = 0 THEN g
    ELSE LET g1 == [g EXCEPT !.health = ClampHealth(g, change, sum)]
             g2 == [g1 EXCEPT !.goAnimProgress = (g1.health * 255) \div g1.maxHealth]
             newState ==
                 IF g2.health = 0 THEN "GO_DESTRUCTIBLE_DESTROYED"
                 ELSE IF g2.health <= DamagedHealth THEN "GO_DESTRUCTIBLE_DAMAGED"
                 ELSE IF g2.health = g2.maxHealth THEN "GO_DESTRUCTIBLE_INTACT"
                 ELSE GetDestructibleState(g2)
         IN IF newState = GetDestructibleState(g2) THEN g2
            ELSE SetDestructibleState(g2, newState, FALSE)

-----------------------------------------------------------------------------
(* GameObject: creation                                                     *)

\* GameObject::Create (lines 254-493), the part that sets the modelled fields.
Create(g, goState, dynamic, spawnid) ==
    LET g1 == [g EXCEPT !.compat = IF ~dynamic THEN TRUE ELSE @,
                        !.prevGoState = goState]
        g2 == SetGoState(g1, goState)
    IN CASE g2.tpl.type = "DESTRUCTIBLE_BUILDING" ->
                [g2 EXCEPT !.health = BuildingHealth, !.maxHealth = BuildingHealth,
                           !.goAnimProgress = 255]
         [] g2.tpl.type = "TRANSPORT" ->
                LET g3 == IF g2.tpl.startOpen # 0
                          THEN SetTransportState(g2, "GO_STATE_TRANSPORT_STOPPED",
                                                 g2.tpl.startOpen - 1)
                          ELSE SetTransportState(g2, "GO_STATE_TRANSPORT_ACTIVE", 0)
                IN [g3 EXCEPT !.goAnimProgress = g3.tpl.animProgress]
         [] OTHER -> g2

\* GameObject::CreateGameObject (lines 495-509)
CreateGameObject(tpl, goState) == Create(Constructed(tpl), goState, FALSE, 0)

\* GameObject::AddToWorld (lines 206-229)
AddToWorld(g) ==
    IF g.inWorld THEN g
    ELSE LET toggledState == IF g.tpl.type = "CHEST" THEN g.lootState = "GO_READY"
                             ELSE g.goState = "GO_STATE_READY" \/ IsTransport(g)
         IN [EnableCollision(g, toggledState) EXCEPT !.inWorld = TRUE]

\* A row of the gameobject table with its spawn group, linked respawn, pool
\* membership, and the respawn time the map holds for the spawn at load.
SpawnRow(secs, groupCompat, link, pool, stored) ==
    [spawntimesecs |-> secs, groupCompat |-> groupCompat, link |-> link,
     pool |-> pool, stored |-> stored]

SpawnRows ==
    { SpawnRow(2, TRUE, "none", FALSE, 0),
      SpawnRow(2, FALSE, "none", FALSE, 0),
      SpawnRow(0, TRUE, "none", FALSE, 0),
      SpawnRow(-2, TRUE, "none", FALSE, 0),
      SpawnRow(-2, FALSE, "none", FALSE, 0),
      SpawnRow(-2, TRUE, "other", FALSE, 0),
      SpawnRow(2, TRUE, "none", FALSE, 3),
      SpawnRow(2, FALSE, "none", FALSE, 1),
      SpawnRow(2, TRUE, "self", FALSE, 0),
      SpawnRow(2, TRUE, "self", FALSE, 3),
      SpawnRow(2, TRUE, "other", FALSE, 0),
      SpawnRow(2, TRUE, "none", TRUE, 0) }

\* Variant: a spawn that is not spawned by default keeps the mode of its group.
LoadNotSpawnedByDefault_KeepsMode(g, spawntimesecs) ==
    [g EXCEPT !.spawnedByDefault = FALSE,
              !.respawnDelayTime = -spawntimesecs,
              !.respawnTime = 0]

\* GameObject::LoadFromDB, spawntimesecs < 0 (lines 1218-1229): the mode
\* defaults to compatibility mode (with a warning in the log).
LoadNotSpawnedByDefault(g, spawntimesecs) ==
    [g EXCEPT !.compat = TRUE,
              !.spawnedByDefault = FALSE,
              !.respawnDelayTime = -spawntimesecs,
              !.respawnTime = 0]

\* GameObject::LoadFromDB (lines 1171-1237), with addToMap.
LoadFromDB(tpl, data, saveImmediately) ==
    LET g0 == [Constructed(tpl) EXCEPT !.spawnId = 1,
                                       !.groupCompat = data.groupCompat,
                                       !.compat = data.groupCompat,
                                       !.link = data.link,
                                       !.pool = data.pool,
                                       !.store = data.stored,
                                       !.saveImmediately = saveImmediately]
        g1 == Create(g0, "GO_STATE_READY", ~g0.compat, 1)
        g2 == IF data.spawntimesecs >= 0
              THEN IF ~tpl.despawnPossibility /\ ~tpl.despawnAtAction
                   THEN [g1 EXCEPT !.spawnedByDefault = TRUE,
                                   !.flagNoDespawn = TRUE,
                                   !.respawnDelayTime = 0,
                                   !.respawnTime = 0]
                   ELSE IF g1.store # 0 /\ g1.store <= now
                        THEN [g1 EXCEPT !.spawnedByDefault = TRUE,
                                        !.respawnDelayTime = data.spawntimesecs,
                                        !.respawnTime = 0,
                                        !.store = 0]
                        ELSE [g1 EXCEPT !.spawnedByDefault = TRUE,
                                        !.respawnDelayTime = data.spawntimesecs,
                                        !.respawnTime = g1.store]
              ELSE LoadNotSpawnedByDefault(g1, data.spawntimesecs)
        g3 == [g2 EXCEPT !.hasData = TRUE, !.spawntimesecs = data.spawntimesecs,
                         !.scheduled = g2.respawnTime > 0]
    IN Begin(AddToWorld(g3))

\* A temporary object: CreateGameObject, then the summoner sets the duration,
\* the creating spell and the owner (SetOwnerGUID clears m_spawnedByDefault),
\* or SetSpawnedByDefault(false) for a wild one, and adds it to the map.
Summoned(tpl, duration, spell, owner) ==
    LET g1 == [CreateGameObject(tpl, "GO_STATE_READY") EXCEPT
                   !.spawnedByDefault = FALSE, !.spellId = spell, !.owner = owner]
    IN Begin(AddToWorld(SetRespawnTime(g1, duration)))

-----------------------------------------------------------------------------
(* GameObject::Update (lines 523-963)                                       *)

Max(a, b) == IF a > b THEN a ELSE b

\* Map::GetGORespawnTime of the spawn itself, Map::GetLinkedRespawnTime of the
\* spawn's linked respawn target.
GetLinkedRespawnTime(g) ==
    CASE g.link = "self"  -> g.store
      [] g.link = "other" -> masterRespawn
      [] OTHER            -> 0

\* lines 532-541: the delayed despawn
DespawnDelayStep(g, diff) ==
    IF g.despawnDelay # 0
    THEN IF g.despawnDelay > diff
         THEN [g EXCEPT !.despawnDelay = @ - diff]
         ELSE DespawnOrUnsummon([g EXCEPT !.despawnDelay = 0, !.due = TRUE],
                                0, g.despawnRespawnTime)
    ELSE g

\* Variant: spent charges put the object straight back to GO_NOT_READY.
ReadyTail_SkipsDeactivated(g, in) ==
    IF isSpawned(g) /\ g.tpl.charges # 0 /\ g.usetimes >= g.tpl.charges
    THEN SetLootState([g EXCEPT !.usetimes = 0], "GO_NOT_READY", FALSE)
    ELSE g

\* Mutant: a trap does not wait for its cooldown time.
ReadyTail_IgnoresCooldown(g, in) ==
    LET g1 == IF ~g.compat /\ g.respawnTime > 0 THEN SaveRespawnTime(g, 0) ELSE g IN
    IF ~isSpawned(g1) THEN g1
    ELSE IF g1.tpl.type = "TRAP"
         THEN IF g1.tpl.trapCharges = 2 THEN SetLootState(g1, "GO_ACTIVATED", FALSE)
              ELSE IF g1.tpl.trapRadius = 0 /\ g1.tpl.trapCooldown # 3 THEN g1
              ELSE IF in.unitFound THEN SetLootState(g1, "GO_ACTIVATED", TRUE)
              ELSE g1
         ELSE IF g1.tpl.charges # 0 /\ g1.usetimes >= g1.tpl.charges
              THEN SetLootState([g1 EXCEPT !.usetimes = 0], "GO_JUST_DEACTIVATED", FALSE)
              ELSE g1

\* lines 718-786: GO_READY after the compatibility-mode respawn block
ReadyTail(g, in) ==
    LET g1 == IF ~g.compat /\ g.respawnTime > 0 THEN SaveRespawnTime(g, 0) ELSE g IN
    IF ~isSpawned(g1) THEN g1
    ELSE IF g1.tpl.type = "TRAP"
         THEN IF GameTimeMS < g1.cooldownTime THEN g1
              ELSE IF g1.tpl.trapCharges = 2 THEN SetLootState(g1, "GO_ACTIVATED", FALSE)
              ELSE IF g1.tpl.trapRadius = 0 /\ g1.tpl.trapCooldown # 3 THEN g1
              ELSE IF in.unitFound THEN SetLootState(g1, "GO_ACTIVATED", TRUE)
              ELSE g1
         ELSE IF g1.tpl.charges # 0 /\ g1.usetimes >= g1.tpl.charges
              THEN SetLootState([g1 EXCEPT !.usetimes = 0], "GO_JUST_DEACTIVATED", FALSE)
              ELSE g1

\* Variant: the master's time is copied without the random addition.
LinkedRespawnDelay_NoJitter(g, linkedRespawntime, jitter) ==
    IF g.link = "self" THEN SetRespawnTime(g, WEEK)
    ELSE [g EXCEPT !.respawnTime = Max(now, linkedRespawntime)]

\* lines 655-659: the master is dead: never respawn when linked to itself,
\* else copy the master's time and add urand(5, MINUTE).
LinkedRespawnDelay(g, linkedRespawntime, jitter) ==
    IF g.link = "self" THEN SetRespawnTime(g, WEEK)
    ELSE [g EXCEPT !.respawnTime = Max(now, linkedRespawntime) + jitter]

\* lines 642-788: case GO_READY
ReadyStep(g, in) ==
    IF g.compat /\ g.respawnTime > 0 /\ g.respawnTime <= now
    THEN LET linkedRespawntime == GetLinkedRespawnTime(g)
             ge == [g EXCEPT !.expired = ~g.spawnedByDefault,
                             !.masterDead = ~g.spawnedByDefault /\ linkedRespawntime # 0]
         IN IF linkedRespawntime # 0
            THEN SaveRespawnTime(LinkedRespawnDelay(ge, linkedRespawntime, in.jitter), 0)
            ELSE LET g1 == [ge EXCEPT !.respawnTime = 0, !.usetimes = 0,
                                      !.scheduled = FALSE] IN
                 IF g1.tpl.type = "FISHINGNODE"
                 THEN AssignLootState(
                          IF g1.owner THEN Log([g1 EXCEPT !.owner = FALSE], "FishEscaped")
                          ELSE g1,
                          "GO_JUST_DEACTIVATED")
                 ELSE LET g2 == IF g1.tpl.type \in {"DOOR", "BUTTON"}
                                     /\ g1.goState # "GO_STATE_READY"
                                THEN ResetDoorOrButton(g1) ELSE g1 IN
                      IF ~g2.spawnedByDefault
                      THEN SetLootState(g2, "GO_JUST_DEACTIVATED", FALSE)
                      ELSE LET g3 == Log(g2, "AI.Reset")
                               g4 == IF g3.spawnId # 0 /\ g3.pool
                                     THEN Log(g3, "UpdatePool")
                                     ELSE Log([g3 EXCEPT !.inWorld = TRUE], "AddToMap")
                           IN ReadyTail(g4, in)
    ELSE ReadyTail(g, in)

\* lines 545-640: case GO_NOT_READY, falling through to GO_READY
NotReadyStep(g, in) ==
    CASE g.tpl.type = "TRAP" ->
           LET g1 == IF g.tpl.trapCharges = 2
                     THEN [g EXCEPT !.cooldownTime = GameTimeMS + 10 * IN_MILLISECONDS]
                     ELSE IF g.owner /\ in.ownerInCombat
                          THEN [g EXCEPT !.cooldownTime =
                                    GameTimeMS + g.tpl.trapStartDelay * IN_MILLISECONDS]
                          ELSE g
           IN ReadyStep(SetLootState(g1, "GO_READY", FALSE), in)
      [] g.tpl.type = "FISHINGNODE" ->
           IF now > g.respawnTime - FISHING_BOBBER_READY_TIME
           THEN LET g1 == IF g.owner
                          THEN Log([SetGoState(g, "GO_STATE_ACTIVE") EXCEPT
                                        !.flagInUse = FALSE, !.flagNoDespawn = TRUE],
                                   "SendCustomAnim")
                          ELSE g
                IN AssignLootState(g1, "GO_READY")
           ELSE g
      [] g.tpl.type = "TRANSPORT" -> ReadyStep(g, in)
      [] OTHER -> ReadyStep(AssignLootState(g, "GO_READY"), in)

\* lines 789-859: case GO_ACTIVATED
ActivatedStep(g, in) ==
    CASE g.tpl.type \in {"DOOR", "BUTTON"} ->
           IF g.cooldownTime # 0 /\ GameTimeMS >= g.cooldownTime
           THEN ResetDoorOrButton(g) ELSE g
      [] g.tpl.type = "GOOBER" ->
           IF GameTimeMS >= g.cooldownTime
           THEN [SetLootState([g EXCEPT !.flagInUse = FALSE], "GO_JUST_DEACTIVATED", FALSE)
                     EXCEPT !.cooldownTime = 0]
           ELSE g
      [] g.tpl.type = "TRAP" ->
           IF g.tpl.trapCharges = 2 /\ g.tpl.trapSpell
           THEN SetLootState(Log(g, "CastSpell"), "GO_JUST_DEACTIVATED", FALSE)
           ELSE IF g.lootStateUnit /\ in.unitFound
                THEN LET g1 == IF g.tpl.trapSpell THEN Log(g, "CastSpell") ELSE g
                         g2 == [g1 EXCEPT !.cooldownTime = GameTimeMS
                                    + (IF g.tpl.trapCooldown # 0 THEN g.tpl.trapCooldown
                                       ELSE 4) * IN_MILLISECONDS]
                     IN IF g2.tpl.trapCharges = 1
                        THEN SetLootState(g2, "GO_JUST_DEACTIVATED", FALSE)
                        ELSE IF g2.tpl.trapCharges = 0
                             THEN SetLootState(g2, "GO_READY", FALSE)
                             ELSE g2
                ELSE g
      [] OTHER -> g

\* Variant: a not-default instance is deleted whether or not it has a spawn id.
DeactivatedTail_DeletesSpawn(g) ==
    LET g1 == SetLootState(g, "GO_NOT_READY", FALSE) IN
    IF g1.respawnDelayTime = 0 THEN g1
    ELSE IF ~g1.spawnedByDefault THEN Delete([g1 EXCEPT !.respawnTime = 0])
         ELSE Log([g1 EXCEPT !.respawnTime = now + g1.respawnDelayTime], "DestroyForNearbyPlayers")

\* Variant: a modern-mode instance is hidden like a compatibility-mode one
\* instead of being put on the removal list.
DeactivatedTail_StaysResident(g) ==
    LET g1 == SetLootState(g, "GO_NOT_READY", FALSE)
        g2 == IF g1.tpl.despawnAtAction \/ g1.tpl.animProgress > 0
              THEN ResetFlagsFromOverride(Log(g1, "SendGameObjectDespawn"))
              ELSE g1
    IN IF g2.respawnDelayTime = 0 THEN g2
       ELSE IF ~g2.spawnedByDefault
            THEN LET g3 == [g2 EXCEPT !.respawnTime = 0] IN
                 IF g3.spawnId # 0 THEN Log(g3, "DestroyForNearbyPlayers")
                 ELSE Delete(g3)
            ELSE LET respawnDelay == g2.respawnDelayTime
                     g3 == [g2 EXCEPT !.respawnTime = now + respawnDelay,
                                      !.scheduled = TRUE]
                     g4 == SaveRespawnTime(g3, 0)
                 IN Log(g4, "DestroyForNearbyPlayers")

\* lines 904-960: GO_JUST_DEACTIVATED from SetLootState(GO_NOT_READY) on
DeactivatedTail(g) ==
    LET g1 == SetLootState(g, "GO_NOT_READY", FALSE)
        g2 == IF g1.tpl.despawnAtAction \/ g1.tpl.animProgress > 0
              THEN ResetFlagsFromOverride(Log(g1, "SendGameObjectDespawn"))
              ELSE g1
    IN IF g2.respawnDelayTime = 0 THEN g2
       ELSE IF ~g2.spawnedByDefault
            THEN LET g3 == [g2 EXCEPT !.respawnTime = 0] IN
                 IF g3.spawnId # 0 THEN Log(g3, "DestroyForNearbyPlayers")
                 ELSE Delete(g3)
            ELSE LET respawnDelay == g2.respawnDelayTime
                     g3 == [g2 EXCEPT !.respawnTime = now + respawnDelay,
                                      !.scheduled = TRUE]
                     g4 == IF g3.saveImmediately THEN SaveRespawnTime(g3, 0) ELSE g3
                 IN IF ~g4.compat
                    THEN LET g5 == IF ~g4.saveImmediately THEN SaveRespawnTime(g4, 0)
                                   ELSE g4
                         IN Log([g5 EXCEPT !.disposal = "removeList"],
                                "AddObjectToRemoveList")
                    ELSE Log(g4, "DestroyForNearbyPlayers")

\* Mutant: a summoned chest is deleted like every other summoned object.
JustDeactivatedStep_DeletesChest(g) ==
    LET g1 == DespawnLinkedTrap(g)
        g2 == IF g1.tpl.type = "GOOBER"
              THEN SetGoState(IF g1.tpl.gooberSpell
                              THEN Log([g1 EXCEPT !.usetimes = 0], "CastSpell")
                              ELSE g1,
                              "GO_STATE_READY")
              ELSE g1
    IN IF g2.tpl.type = "GOOBER" /\ g2.tpl.hasOverride /\ g2.tpl.overrideNoDespawn
       THEN g2
       ELSE LET g3 == Log(g2, "loot.clear") IN
            IF g3.spellId \/ g3.owner
            THEN Delete(SetRespawnTime(g3, 0))
            ELSE DeactivatedTail(g3)

\* Mutant: the summoned chest that is kept is not put back to GO_READY.
JustDeactivatedStep_ChestStays(g) ==
    LET g1 == DespawnLinkedTrap(g)
        g2 == IF g1.tpl.type = "GOOBER"
              THEN SetGoState(IF g1.tpl.gooberSpell
                              THEN Log([g1 EXCEPT !.usetimes = 0], "CastSpell")
                              ELSE g1,
                              "GO_STATE_READY")
              ELSE g1
    IN IF g2.tpl.type = "GOOBER" /\ g2.tpl.hasOverride /\ g2.tpl.overrideNoDespawn
       THEN g2
       ELSE LET g3 == Log(g2, "loot.clear") IN
            IF g3.spellId \/ g3.owner
            THEN IF g3.respawnTime > 0 /\ g3.tpl.type = "CHEST" /\ ~g3.tpl.despawnAtAction
                 THEN Log(g3, "UpdateObjectVisibility")
                 ELSE Delete(SetRespawnTime(g3, 0))
            ELSE DeactivatedTail(g3)

\* lines 860-961: case GO_JUST_DEACTIVATED
JustDeactivatedStep(g) ==
    LET g1 == DespawnLinkedTrap(g)
        g2 == IF g1.tpl.type = "GOOBER"
              THEN SetGoState(IF g1.tpl.gooberSpell
                              THEN Log([g1 EXCEPT !.usetimes = 0], "CastSpell")
                              ELSE g1,
                              "GO_STATE_READY")
              ELSE g1
    IN IF g2.tpl.type = "GOOBER" /\ g2.tpl.hasOverride /\ g2.tpl.overrideNoDespawn
       THEN g2
       ELSE LET g3 == Log(g2, "loot.clear") IN
            IF g3.spellId \/ g3.owner
            THEN IF g3.respawnTime > 0 /\ g3.tpl.type = "CHEST" /\ ~g3.tpl.despawnAtAction
                 THEN SetLootState(Log(g3, "UpdateObjectVisibility"), "GO_READY", FALSE)
                 ELSE Delete(SetRespawnTime(g3, 0))
            ELSE DeactivatedTail(g3)

\* GameObject::Update(diff) (lines 523-963). `in` holds what the tick reads
\* from the world: whether the owner is in combat, whether the unit the tick
\* looks for (a trap's target, the activating unit) is found, the urand result.
Update(g, diff, in) ==
    LET timerDue == g.compat /\ g.scheduled /\ g.respawnTime > 0 /\ g.respawnTime <= now
        g0 == [Begin(g) EXCEPT !.timerDue = timerDue,
                               !.linkDead = timerDue /\ GetLinkedRespawnTime(g) # 0]
        g1 == DespawnDelayStep(g0, diff) IN
    CASE g1.lootState = "GO_NOT_READY"        -> NotReadyStep(g1, in)
      [] g1.lootState = "GO_READY"            -> ReadyStep(g1, in)
      [] g1.lootState = "GO_ACTIVATED"        -> ActivatedStep(g1, in)
      [] g1.lootState = "GO_JUST_DEACTIVATED" -> JustDeactivatedStep(g1)

\* GameObject::Use(user) (lines 1575-2210): doors, buttons, traps and goobers.
Use(g) ==
    LET onCooldown == g.tpl.cooldown # 0 /\ g.cooldownTime > now
        g1 == IF g.tpl.cooldown # 0
              THEN [g EXCEPT !.cooldownTime = GameTimeMS + g.tpl.cooldown * IN_MILLISECONDS]
              ELSE g
    IN IF onCooldown THEN g
       ELSE CASE g1.tpl.type \in {"DOOR", "BUTTON"} -> UseDoorOrButton(g1, 0, FALSE, TRUE)
              [] g1.tpl.type = "TRAP" ->
                   LET g2 == IF g1.tpl.trapSpell THEN Log(g1, "CastSpell") ELSE g1
                       g3 == [g2 EXCEPT !.cooldownTime = GameTimeMS
                                  + (IF g2.tpl.trapCooldown # 0 THEN g2.tpl.trapCooldown
                                     ELSE 4) * IN_MILLISECONDS]
                   IN IF g3.tpl.trapCharges = 1
                      THEN SetLootState(g3, "GO_JUST_DEACTIVATED", FALSE)
                      ELSE g3
              [] g1.tpl.type = "GOOBER" ->
                   LET g2 == SetLootState([g1 EXCEPT !.flagInUse = TRUE],
                                          "GO_ACTIVATED", TRUE)
                       g3 == SetGoState(g2, "GO_STATE_ACTIVE")
                       g4 == [g3 EXCEPT !.cooldownTime = GameTimeMS + g3.tpl.autoCloseTime]
                   IN IF g4.tpl.gooberSpell THEN Log(g4, "CastSpell") ELSE g4
              [] OTHER -> g1

-----------------------------------------------------------------------------
(* GameObject: actions                                                      *)

\* Update ticks of 1000 ms. DespawnOrUnsummon is called at once, with or
\* without a forced respawn time, or with a delay of 1500 ms.
Diffs == {1000}
DespawnCalls == { <<0, 0>>, <<0, 1>>, <<1500, 0>> }
Durations == {0, 2}

\* m_usetimes is counted up to MaxUse.
MaxUse == 2

TickInputs == [ownerInCombat : BOOLEAN, unitFound : BOOLEAN, jitter : LinkedRespawnJitter]

\* The instance is on the map: not handed to the removal list or its pool.
Resident == go.disposal = "none"

GoStep(name, diff, g) ==
    /\ goOp' = [name |-> name, diff |-> diff]
    /\ go' = g
    /\ UNCHANGED <<now, masterRespawn, aiVars, fillVars>>

Call_Update ==
    /\ Resident
    /\ \E diff \in Diffs, in \in TickInputs : GoStep("Update", diff, Update(go, diff, in))

Call_Use ==
    /\ Resident
    /\ GoStep("Use", 0, Use(Begin(go)))

\* The calls of SetLootState from outside the class: loot opened by a unit,
\* loot released.
LootedTypes == {"GENERIC", "CHEST", "FISHINGNODE"}

LootStateCalls ==
    { <<"GO_ACTIVATED", TRUE>>, <<"GO_JUST_DEACTIVATED", FALSE>> }

Call_SetLootState ==
    /\ Resident
    /\ go.tpl.type \in LootedTypes
    /\ \E call \in LootStateCalls :
           GoStep("SetLootState", 0, SetLootState(Begin(go), call[1], call[2]))

Call_DespawnOrUnsummon ==
    /\ Resident
    /\ \E call \in DespawnCalls :
           GoStep("DespawnOrUnsummon", 0, DespawnOrUnsummon(Begin(go), call[1], call[2]))

Call_Delete ==
    /\ Resident
    /\ GoStep("Delete", 0, Delete(Begin(go)))

Call_SetRespawnTime ==
    /\ Resident
    /\ \E respawn \in Durations :
           GoStep("SetRespawnTime", 0,
                  [SetRespawnTime(Begin(go), respawn) EXCEPT !.scheduled = FALSE])

Call_Respawn ==
    /\ Resident
    /\ GoStep("Respawn", 0, [Respawn(Begin(go)) EXCEPT !.scheduled = FALSE])

Call_ResetDoorOrButton ==
    /\ Resident
    /\ go.tpl.type \in {"DOOR", "BUTTON"}
    /\ GoStep("ResetDoorOrButton", 0, ResetDoorOrButton(Begin(go)))

\* GameObject::AddUse (GameObject.h): ++m_usetimes
Call_AddUse ==
    /\ Resident
    /\ go.tpl.charges # 0
    /\ go.usetimes < MaxUse
    /\ GoStep("AddUse", 0, [Begin(go) EXCEPT !.usetimes = @ + 1])

\* Damage and healing applied to the instance: none, a part of the health,
\* all of it, and the ends of the range of int32.
HealthChanges ==
    {0, -2500, 2500, -7500, 12500, -BuildingHealth, BuildingHealth,
     INT32_MAX, INT32_MAX - 2499, INT32_MIN}

Call_ModifyHealth ==
    /\ Resident
    /\ \E change \in HealthChanges :
         \E sum \in Int32Sums(go.health, change) :
           /\ goOp' = [name |-> "ModifyHealth", diff |-> 0, change |-> change,
                       before |-> Begin(go)]
           /\ go' = ModifyHealth(Begin(go), change, sum)
           /\ UNCHANGED <<now, masterRespawn, aiVars, fillVars>>

Call_SetDestructibleState ==
    /\ Resident
    /\ go.tpl.type = "DESTRUCTIBLE_BUILDING"
    /\ \E state \in DestructibleStates, setHealth \in BOOLEAN :
           /\ goOp' = [name |-> "SetDestructibleState", diff |-> 0, state |-> state,
                       setHealth |-> setHealth]
           /\ go' = SetDestructibleState(Begin(go), state, setHealth)
           /\ UNCHANGED <<now, masterRespawn, aiVars, fillVars>>

\* SetTransportState as the transport scripts call it: start moving, or stop
\* at a frame the transport has.
TransportCalls(g) ==
    { <<"GO_STATE_TRANSPORT_ACTIVE", 0>> }
    \cup { <<"GO_STATE_TRANSPORT_STOPPED", f>> : f \in 0..(g.tpl.stopFrames - 1) }

Call_SetTransportState ==
    /\ Resident
    /\ go.tpl.type = "TRANSPORT"
    /\ \E call \in TransportCalls(go) :
           GoStep("SetTransportState", 0, SetTransportState(Begin(go), call[1], call[2]))

\* UseDoorOrButton as scripts call it, for the auto-close time of the template
\* or a time of their own, to either open state.
RestoreTimes == {0}

Call_UseDoorOrButton ==
    /\ Resident
    /\ \E time_to_restore \in RestoreTimes, alternative \in BOOLEAN :
           GoStep("UseDoorOrButton", 0,
                  UseDoorOrButton(Begin(go), time_to_restore, alternative, TRUE))

\* UseDoorOrButton on a door or button with the restore time the caller gives,
\* in ms (0: the template's auto-close time); the argument is kept with the
\* operation.
RestoreDelays == {0, 1000, 1500}

Call_UseDoorOrButtonFor ==
    /\ Resident
    /\ go.tpl.type \in {"DOOR", "BUTTON"}
    /\ \E time_to_restore \in RestoreDelays, alternative \in BOOLEAN :
           /\ goOp' = [name |-> "UseDoorOrButton", diff |-> 0,
                       time_to_restore |-> time_to_restore]
           /\ go' = UseDoorOrButton(Begin(go), time_to_restore, alternative, TRUE)
           /\ UNCHANGED <<now, masterRespawn, aiVars, fillVars>>

\* SetLootState and SetGoState as scripts call them on any instance, with any
\* state; the collision at the call is kept with the operation.
Call_SetLootStateTo ==
    /\ Resident
    /\ \E state \in LootStates, unit \in BOOLEAN :
           /\ goOp' = [name |-> "SetLootState", diff |-> 0, state |-> state,
                       collision |-> go.collision]
           /\ go' = SetLootState(Begin(go), state, unit)
           /\ UNCHANGED <<now, masterRespawn, aiVars, fillVars>>

Call_SetGoState ==
    /\ Resident
    /\ \E state \in GoStates :
           /\ goOp' = [name |-> "SetGoState", diff |-> 0, state |-> state,
                       collision |-> go.collision]
           /\ go' = SetGoState(Begin(go), state)
           /\ UNCHANGED <<now, masterRespawn, aiVars, fillVars>>

\* DespawnOrUnsummon with the delays (ms) and forced respawn times (s) callers
\* give; the arguments are kept with the operation.
DespawnDelays == {0, 1000, 1500, 2500}
ForcedRespawns == {0, 3}

Call_DespawnOrUnsummonAfter ==
    /\ Resident
    /\ \E delay \in DespawnDelays, forceRespawnTime \in ForcedRespawns :
           /\ goOp' = [name |-> "DespawnOrUnsummon", diff |-> 0, delay |-> delay,
                       forceRespawnTime |-> forceRespawnTime]
           /\ go' = DespawnOrUnsummon(Begin(go), delay, forceRespawnTime)
           /\ UNCHANGED <<now, masterRespawn, aiVars, fillVars>>

\* Ticks of different lengths (ms).
TickDeltas == {400, 1000}

Call_UpdateBy ==
    /\ Resident
    /\ \E diff \in TickDeltas, in \in TickInputs : GoStep("Update", diff, Update(go, diff, in))

\* The tick, with what it read from the world kept with the operation.
Call_UpdateSeen ==
    /\ Resident
    /\ \E diff \in Diffs, in \in TickInputs :
           /\ goOp' = [name |-> "Update", diff |-> diff,
                       unitFound |-> in.unitFound, ownerInCombat |-> in.ownerInCombat]
           /\ go' = Update(go, diff, in)
           /\ UNCHANGED <<now, masterRespawn, aiVars, fillVars>>

\* A spell or script triggers the trap itself: SetLootState(GO_ACTIVATED, unit),
\* with or without a triggering unit.
Call_ActivateTrap ==
    /\ Resident
    /\ go.tpl.type = "TRAP"
    /\ \E unit \in BOOLEAN :
           GoStep("SetLootState", 0, SetLootState(Begin(go), "GO_ACTIVATED", unit))

\* Game time for the traps runs to MaxTrapTime seconds, beyond the arming
\* time of a bomb.
Env_TrapTimePasses ==
    /\ Resident
    /\ now < MaxTrapTime
    /\ now' = now + 1
    /\ UNCHANGED <<go, goOp, masterRespawn, aiVars, fillVars>>

\* One second of game time passes.
Env_TimePasses ==
    /\ Resident
    /\ now < MaxTime
    /\ now' = now + 1
    /\ UNCHANGED <<go, goOp, masterRespawn, aiVars, fillVars>>

\* The linked master respawns: its stored respawn time is removed.
Env_MasterRespawns ==
    /\ Resident
    /\ masterRespawn # 0
    /\ masterRespawn' = 0
    /\ UNCHANGED <<go, goOp, now, aiVars, fillVars>>


\* The instances the GameObject specification starts from: loaded from the
\* gameobject table, or summoned for a duration.
CompatRow  == SpawnRow(2, TRUE, "none", FALSE, 0)
DynamicRow == SpawnRow(2, FALSE, "none", FALSE, 0)
HiddenRow  == SpawnRow(-2, TRUE, "none", FALSE, 0)

GoInstances ==
    { LoadFromDB(GenericGO, data, FALSE) : data \in SpawnRows }
    \cup { LoadFromDB(GenericGO, data, TRUE) :
               data \in {CompatRow, DynamicRow, SpawnRow(2, TRUE, "self", FALSE, 0)} }
    \cup { LoadFromDB(tpl, CompatRow, FALSE) : tpl \in Templates \ {GenericGO, FishingBobber} }
    \cup { LoadFromDB(tpl, DynamicRow, FALSE) :
               tpl \in {SpellCasterGO, DoorGO, ChestGO, ConsumableChest, GooberGO,
                        FlagGoober, OneShotTrap} }
    \cup { LoadFromDB(tpl, HiddenRow, FALSE) : tpl \in {ConsumableChest, FlagGoober} }
    \cup { Summoned(GenericGO, 2, so[1], so[2]) :
               so \in {<<TRUE, TRUE>>, <<TRUE, FALSE>>, <<FALSE, FALSE>>} }
    \cup { Summoned(tpl, 2, TRUE, TRUE) :
               tpl \in {ChestGO, ConsumableChest, FlagGoober, SnareTrap, BombTrap,
                        FishingBobber} }

\* Stored respawn time of a linked master that is dead at the start.
MasterRespawnTimes == {0, 3}

GoAtRest == LoadFromDB(BaseTemplate, SpawnRow(2, TRUE, "none", FALSE, 0), FALSE)

NoGoOp == [name |-> "none", diff |-> 0]

-----------------------------------------------------------------------------
(* Specifications                                                           *)

\* CreatureAI::CreatureAI: no boundary, not negated, lock clear (lines 56-61);
\* the creature is alive and at rest.
InitAI ==
    /\ \E react \in ReactStates, vehicle \in BOOLEAN, owner \in BOOLEAN :
         me = MeInit(react, vehicle, owner)
    /\ pre = me
    /\ op = [name |-> "CreatureAI"]
    /\ calls = << >>
    /\ los = LosIdle
    /\ boundary = NoBoundary
    /\ negateBoundary = FALSE
    /\ vb = VbIdle
    /\ mePos = <<0, 0>>
    /\ homePos = <<0, 0>>
    /\ now = 1
    /\ masterRespawn = 0
    /\ go = GoAtRest
    /\ goOp = NoGoOp

NextAI ==
    \/ Call_EnterEvadeMode
    \/ Call_MoveInLineOfSight_Safe
    \/ Nested_MoveInLineOfSight_Safe
    \/ Return_MoveInLineOfSight_Safe
    \/ Call_UpdateVictim
    \/ Call_OnOwnerCombatInteraction
    \/ Call_TriggerAlert
    \/ Env_DistractEnds
    \/ Env_AttackedBy
    \/ Env_CombatDrops
    \/ Env_HomeReached
    \/ Env_SetReactState
    \/ Env_Died
    \/ Env_Respawned

SpecAI == InitAI /\ [][NextAI]_vars

InitFill ==
    /\ me = MeInit("REACT_AGGRESSIVE", FALSE, FALSE)
    /\ pre = me
    /\ op = [name |-> "CreatureAI"]
    /\ calls = << >>
    /\ los = LosIdle
    /\ boundary = NoBoundary
    /\ negateBoundary = FALSE
    /\ vb = VbIdle
    /\ mePos \in Positions
    /\ homePos \in Positions
    /\ now = 1
    /\ masterRespawn = 0
    /\ go = GoAtRest
    /\ goOp = NoGoOp

NextFill ==
    \/ SetBoundary
    \/ Env_Relocate
    \/ VisualizeBoundary_Enter
    \/ VisualizeBoundary_Loop
    \/ VisualizeBoundary_Return
    \/ VisualizeBoundary_Forget

\* The fill is a loop inside one call: once entered, it runs on.
FairFill == WF_vars(VisualizeBoundary_Loop) /\ WF_vars(VisualizeBoundary_Return)

SpecFill == InitFill /\ [][NextFill]_vars /\ FairFill

\* One instance, loaded or summoned, at game time 1.
InitGO ==
    /\ me = MeInit("REACT_AGGRESSIVE", FALSE, FALSE)
    /\ pre = me
    /\ op = [name |-> "CreatureAI"]
    /\ calls = << >>
    /\ los = LosIdle
    /\ boundary = NoBoundary
    /\ negateBoundary = FALSE
    /\ mePos = <<0, 0>>
    /\ homePos = <<0, 0>>
    /\ vb = VbIdle
    /\ now = 1
    /\ go \in GoInstances
    /\ masterRespawn \in IF go.link = "other" THEN MasterRespawnTimes ELSE {0}
    /\ goOp = NoGoOp

NextGO ==
    \/ Call_Update
    \/ Call_Use
    \/ Call_SetLootState
    \/ Call_DespawnOrUnsummon
    \/ Call_Delete
    \/ Call_SetRespawnTime
    \/ Call_Respawn
    \/ Call_ResetDoorOrButton
    \/ Call_AddUse
    \/ Env_TimePasses
    \/ Env_MasterRespawns

SpecGO == InitGO /\ [][NextGO]_vars

\* One instance created from its template and added to the map: a
\* destructible building, or an object of another type (no building value).
BuildingInstances ==
    { AddToWorld(CreateGameObject(tpl, "GO_STATE_READY")) : tpl \in {BuildingGO, GenericGO} }

InitBuilding ==
    /\ me = MeInit("REACT_AGGRESSIVE", FALSE, FALSE)
    /\ pre = me
    /\ op = [name |-> "CreatureAI"]
    /\ calls = << >>
    /\ los = LosIdle
    /\ boundary = NoBoundary
    /\ negateBoundary = FALSE
    /\ mePos = <<0, 0>>
    /\ homePos = <<0, 0>>
    /\ vb = VbIdle
    /\ now = 1
    /\ go \in BuildingInstances
    /\ masterRespawn = 0
    /\ goOp = NoGoOp

NextBuilding ==
    \/ Call_ModifyHealth
    \/ Call_SetDestructibleState

SpecBuilding == InitBuilding /\ [][NextBuilding]_vars

\* One instance with a collision model, loaded from the gameobject table: a
\* door, a button, a chest or a generic object.
CollisionInstances ==
    { LoadFromDB(tpl, CompatRow, FALSE) : tpl \in {DoorGO, ButtonGO, ChestGO, GenericGO} }

InitCollision ==
    /\ me = MeInit("REACT_AGGRESSIVE", FALSE, FALSE)
    /\ pre = me
    /\ op = [name |-> "CreatureAI"]
    /\ calls = << >>
    /\ los = LosIdle
    /\ boundary = NoBoundary
    /\ negateBoundary = FALSE
    /\ mePos = <<0, 0>>
    /\ homePos = <<0, 0>>
    /\ vb = VbIdle
    /\ now = 1
    /\ go \in CollisionInstances
    /\ masterRespawn = 0
    /\ goOp = NoGoOp

NextCollision ==
    \/ Call_SetLootStateTo
    \/ Call_SetGoState
    \/ Call_Use
    \/ Call_ResetDoorOrButton
    \/ Call_Update

SpecCollision == InitCollision /\ [][NextCollision]_vars

\* One instance of each type, loaded from the gameobject table or summoned,
\* under every operation that sets the loot state.
LootInstances ==
    { LoadFromDB(tpl, CompatRow, FALSE) :
          tpl \in {GenericGO, DoorGO, ButtonGO, GooberGO, OneShotTrap} }
    \cup { LoadFromDB(ConsumableChest, DynamicRow, FALSE) }
    \cup { Summoned(FishingBobber, 2, TRUE, TRUE) }

InitLoot ==
    /\ me = MeInit("REACT_AGGRESSIVE", FALSE, FALSE)
    /\ pre = me
    /\ op = [name |-> "CreatureAI"]
    /\ calls = << >>
    /\ los = LosIdle
    /\ boundary = NoBoundary
    /\ negateBoundary = FALSE
    /\ mePos = <<0, 0>>
    /\ homePos = <<0, 0>>
    /\ vb = VbIdle
    /\ now = 1
    /\ go \in LootInstances
    /\ masterRespawn = 0
    /\ goOp = NoGoOp

NextLoot ==
    \/ Call_Update
    \/ Call_Use
    \/ Call_UseDoorOrButton
    \/ Call_ResetDoorOrButton
    \/ Call_DespawnOrUnsummon
    \/ Call_Delete
    \/ Call_SetLootStateTo
    \/ Env_TimePasses

SpecLoot == InitLoot /\ [][NextLoot]_vars

\* One transport: loaded from the gameobject table, or created by a script,
\* in the go-state the caller of Create asks for.
TransportInstances ==
    { LoadFromDB(tpl, data, FALSE) :
          tpl \in {Elevator, OpenElevator, Tram}, data \in {CompatRow, DynamicRow} }
    \cup { AddToWorld(CreateGameObject(tpl, goState)) :
               tpl \in {Elevator, OpenElevator, Tram},
               goState \in {"GO_STATE_ACTIVE", "GO_STATE_READY",
                            "GO_STATE_TRANSPORT_ACTIVE"} }

InitTransport ==
    /\ me = MeInit("REACT_AGGRESSIVE", FALSE, FALSE)
    /\ pre = me
    /\ op = [name |-> "CreatureAI"]
    /\ calls = << >>
    /\ los = LosIdle
    /\ boundary = NoBoundary
    /\ negateBoundary = FALSE
    /\ mePos = <<0, 0>>
    /\ homePos = <<0, 0>>
    /\ vb = VbIdle
    /\ now = 1
    /\ go \in TransportInstances
    /\ masterRespawn = 0
    /\ goOp = NoGoOp

NextTransport ==
    \/ Call_SetTransportState
    \/ Call_Update
    \/ Call_DespawnOrUnsummon
    \/ Call_Delete

SpecTransport == InitTransport /\ [][NextTransport]_vars

\* Doors and buttons: loaded from the gameobject table, or created at run
\* time by CreateGameObject and added to the map.
DoorInstances ==
    { LoadFromDB(tpl, row, FALSE) :
          tpl \in {DoorGO, AutoCloseDoor, ButtonGO}, row \in {CompatRow, DynamicRow} }
    \cup { Begin(AddToWorld(CreateGameObject(tpl, goState))) :
               tpl \in {DoorGO, ButtonGO},
               goState \in {"GO_STATE_READY", "GO_STATE_ACTIVE"} }

InitDoor ==
    /\ me = MeInit("REACT_AGGRESSIVE", FALSE, FALSE)
    /\ pre = me
    /\ op = [name |-> "CreatureAI"]
    /\ calls = << >>
    /\ los = LosIdle
    /\ boundary = NoBoundary
    /\ negateBoundary = FALSE
    /\ mePos = <<0, 0>>
    /\ homePos = <<0, 0>>
    /\ vb = VbIdle
    /\ now = 1
    /\ go \in DoorInstances
    /\ masterRespawn = 0
    /\ goOp = NoGoOp

NextDoor ==
    \/ Call_Update
    \/ Call_Use
    \/ Call_UseDoorOrButtonFor
    \/ Call_ResetDoorOrButton
    \/ Env_TimePasses

SpecDoor == InitDoor /\ [][NextDoor]_vars

\* The same doors and buttons with the calls scripts make on them: switching,
\* resetting, setting the loot state or the go-state directly, and the tick.
InitSwitch ==
    /\ me = MeInit("REACT_AGGRESSIVE", FALSE, FALSE)
    /\ pre = me
    /\ op = [name |-> "CreatureAI"]
    /\ calls = << >>
    /\ los = LosIdle
    /\ boundary = NoBoundary
    /\ negateBoundary = FALSE
    /\ mePos = <<0, 0>>
    /\ homePos = <<0, 0>>
    /\ vb = VbIdle
    /\ now = 1
    /\ go \in DoorInstances
    /\ masterRespawn = 0
    /\ goOp = NoGoOp

NextSwitch ==
    \/ Call_UseDoorOrButton
    \/ Call_ResetDoorOrButton
    \/ Call_SetLootStateTo
    \/ Call_SetGoState
    \/ Call_Update

SpecSwitch == InitSwitch /\ [][NextSwitch]_vars

\* Traps: environmental ones loaded from the gameobject table, and ones
\* summoned by their owner without a duration.
TrapTemplates == {SnareTrap, OneShotTrap, BombTrap, BuffTrap, SilentTrap, DudBomb}

TrapInstances ==
    { LoadFromDB(tpl, CompatRow, FALSE) : tpl \in TrapTemplates }
    \cup { Summoned(tpl, 0, TRUE, TRUE) : tpl \in {SnareTrap, OneShotTrap, BombTrap} }

InitTrap ==
    /\ me = MeInit("REACT_AGGRESSIVE", FALSE, FALSE)
    /\ pre = me
    /\ op = [name |-> "CreatureAI"]
    /\ calls = << >>
    /\ los = LosIdle
    /\ boundary = NoBoundary
    /\ negateBoundary = FALSE
    /\ mePos = <<0, 0>>
    /\ homePos = <<0, 0>>
    /\ vb = VbIdle
    /\ now = 1
    /\ go \in TrapInstances
    /\ masterRespawn = 0
    /\ goOp = NoGoOp

NextTrap ==
    \/ Call_UpdateSeen
    \/ Call_ActivateTrap
    \/ Env_TrapTimePasses

SpecTrap == InitTrap /\ [][NextTrap]_vars

\* Instances that scripts despawn: loaded in either respawn mode, or summoned.
DespawnInstances ==
    { LoadFromDB(GenericGO, row, FALSE) : row \in {CompatRow, DynamicRow, HiddenRow} }
    \cup { LoadFromDB(GenericGO, SpawnRow(2, TRUE, "none", TRUE, 0), FALSE),
           LoadFromDB(DoorGO, CompatRow, FALSE),
           Summoned(GenericGO, 2, TRUE, TRUE) }

InitDespawn ==
    /\ me = MeInit("REACT_AGGRESSIVE", FALSE, FALSE)
    /\ pre = me
    /\ op = [name |-> "CreatureAI"]
    /\ calls = << >>
    /\ los = LosIdle
    /\ boundary = NoBoundary
    /\ negateBoundary = FALSE
    /\ mePos = <<0, 0>>
    /\ homePos = <<0, 0>>
    /\ vb = VbIdle
    /\ now = 1
    /\ go \in DespawnInstances
    /\ masterRespawn = 0
    /\ goOp = NoGoOp

NextDespawn ==
    \/ Call_DespawnOrUnsummonAfter
    \/ Call_UpdateBy
    \/ Env_TimePasses

SpecDespawn == InitDespawn /\ [][NextDespawn]_vars

-----------------------------------------------------------------------------
(* Properties: evade entry                                                  *)

MovementCalls == {"MotionMaster.Clear", "MoveFollow", "MoveTargetedHome"}

Made(call) == \E i \in 1..Len(calls) : calls[i] = call

\* The last handler was EnterEvadeMode on a creature that was alive and
\* already in evade mode.
EvadeReentry == op.name = "EnterEvadeMode" /\ pre.alive /\ pre.evade

\* C1 as stated: EnterEvadeMode on an alive creature that is already in evade
\* mode has no side effect at all: the threat list is not cleared again, combat
\* is not stopped again, no movement command is issued, Reset is not fired.
C1_EvadeReentryNoSideEffects ==
    EvadeReentry =>
        /\ ~Made("ClearAllThreat")
        /\ ~Made("CombatStop")
        /\ \A m \in MovementCalls : ~Made(m)
        /\ ~Made("Reset")

\* C1 amended: EnterEvadeMode on an alive creature that is already in evade
\* mode issues no movement command, does not fire Reset and leaves the evade
\* flag and the movement as they were; the cleanup of _EnterEvadeMode (threat
\* cleared, combat stopped, loot recipient and damage bookkeeping reset) is
\* carried out again, because it runs before the already-evading test.
C1_EvadeReentryOnlyCleansUp ==
    EvadeReentry =>
        /\ \A m \in MovementCalls : ~Made(m)
        /\ ~Made("Reset")
        /\ ~Made("AddUnitState(UNIT_STATE_EVADE)")
        /\ me.evade /\ me.motion = pre.motion
        /\ calls = EvadeCleanupCalls
        /\ ~me.engaged /\ ~me.inCombat /\ me.victim = NoUnit

\* Witness: a re-entry on an evading creature that had picked up threat again.
C1_Witness == EvadeReentry /\ pre.engaged /\ pre.motion = "home"

-----------------------------------------------------------------------------
(* Properties: boundary flood fill                                          *)

Limit == BOUNDARY_VISUALIZE_FAILSAFE_LIMIT

SeqSet(q) == { q[i] : i \in 1..Len(q) }

\* The grid square the failsafe allows.
Square == (-Limit..Limit) \X (-Limit..Limit)

InSquare(c) == c \in Square

Neighbours(c) == { <<c[1] + 1, c[2]>>, <<c[1], c[2] + 1>>, <<c[1] - 1, c[2]>>, <<c[1], c[2] - 1>> }

\* A fill has been started (and maybe finished) by the current call.
Filling == vb.pc \in {"loop", "done"} /\ vb.result \in {"running", "0", "LANG_CREATURE_MOVEMENT_MAYBE_UNBOUNDED"}

\* Every cell the fill has touched so far.
Touched ==
    vb.alreadyChecked \cup SeqSet(vb.Q) \cup SeqSet(vb.processed)
        \cup { vb.markers[i].cell : i \in 1..Len(vb.markers) }

\* C4: for every boundary VisualizeBoundary terminates, and no cell with a
\* coordinate beyond the failsafe limit on either axis is ever classified,
\* enqueued or marked, so at most (2*limit+1)^2 distinct cells are visited.
C4_FillBoundedAndTerminates ==
    /\ [](Filling => /\ Touched \subseteq Square
                     /\ Cardinality(Touched) <= (2 * Limit + 1) * (2 * Limit + 1))
    /\ ((vb.pc = "loop") ~> (vb.pc = "done"))

\* Witness: a finished fill that visited every cell of the square.
C4_Witness ==
    /\ vb.pc = "done" /\ Filling
    /\ Touched = Square

\* The inside cells of the square that are 4-connected to the seed through
\* inside cells of the square, computed from the boundary alone.
InsideCell(c) == IsInBoundary(CellPos(vb.start, c))

RECURSIVE Grow(_)
Grow(S) ==
    LET T == S \cup { n \in Square : InsideCell(n) /\ \E c \in S : n \in Neighbours(c) }
    IN IF T = S THEN S ELSE Grow(T)

Connected == Grow({<<0, 0>>})

\* The connected inside region goes on beyond the failsafe limit.
ExtendsBeyond ==
    \E c \in Connected : \E n \in Neighbours(c) : ~InSquare(n) /\ InsideCell(n)

\* C5: when the inside region connected to the seed extends beyond the limit
\* the fill is not aborted: every connected inside cell of the square is still
\* processed and the result is the MAYBE_UNBOUNDED warning; the result is 0
\* only when no processed cell had a neighbour beyond the limit.
C5_FailsafeWarns ==
    (vb.pc = "done" /\ Filling) =>
        /\ SeqSet(vb.processed) = Connected
        /\ ExtendsBeyond => vb.result = "LANG_CREATURE_MOVEMENT_MAYBE_UNBOUNDED"
        /\ vb.result = "0" =>
             \A c \in SeqSet(vb.processed) : Neighbours(c) \subseteq Square

\* Witness: a finished fill of a region that goes on beyond the limit.
C5_Witness ==
    /\ vb.pc = "done" /\ Filling
    /\ ExtendsBeyond
    /\ vb.result = "LANG_CREATURE_MOVEMENT_MAYBE_UNBOUNDED"
    /\ Cardinality(Connected) > 1 /\ Connected # Square

\* A call with a requesting unit is running or has returned.
Called == vb.pc # "idle" /\ vb.args.owner # NoOwner

NoneInside ==
    /\ ~IsInBoundary(vb.args.owner)
    /\ ~IsInBoundary(mePos)
    /\ ~IsInBoundary(homePos)

\* C6 as stated: the seed is the first of (requesting unit, creature, home)
\* that IsInBoundary accepts, and if none of the three is inside the call
\* returns NO_INTERIOR_POINT_FOUND and spawns no marker.
C6_SeedFallback ==
    Called =>
        /\ (Filling /\ IsInBoundary(vb.args.owner)) => vb.start = vb.args.owner
        /\ NoneInside => /\ vb.pc = "done"
                         /\ vb.result = "LANG_CREATURE_NO_INTERIOR_POINT_FOUND"
                         /\ vb.markers = << >>

\* C6 amended: for a boundary with at least one area the seed is the first of
\* (requesting unit's position, creature's position, creature's home position)
\* that IsInBoundary accepts, and if none of the three is inside the call
\* returns NO_INTERIOR_POINT_FOUND and spawns no marker; a boundary that is
\* set but has no area returns NOT_BOUNDED before any seed is looked for.
C6_SeedFallbackNonEmpty ==
    Called =>
        /\ (~boundary.null /\ boundary.areas # << >>) =>
             IF IsInBoundary(vb.args.owner) THEN Filling /\ vb.start = vb.args.owner
             ELSE IF IsInBoundary(mePos) THEN Filling /\ vb.start = mePos
             ELSE IF IsInBoundary(homePos) THEN Filling /\ vb.start = homePos
             ELSE /\ vb.pc = "done"
                  /\ vb.result = "LANG_CREATURE_NO_INTERIOR_POINT_FOUND"
                  /\ vb.markers = << >>
        /\ (~boundary.null /\ boundary.areas = << >>) =>
             /\ vb.pc = "done"
             /\ vb.result = "LANG_CREATURE_MOVEMENT_NOT_BOUNDED"
             /\ vb.markers = << >>

\* Witness: the requesting unit is inside, the creature and its home are not,
\* and the fill was seeded at the requesting unit.
C6_Witness ==
    /\ Called /\ Filling
    /\ IsInBoundary(vb.args.owner) /\ ~IsInBoundary(mePos) /\ ~IsInBoundary(homePos)
    /\ vb.start = vb.args.owner
    /\ vb.start # mePos /\ vb.start # homePos

\* Positions on which containment is compared.
Probe == (-2..9) \X (-2..9)

\* C7 as stated: with no boundary configured IsInBoundary is true for every
\* position whatever the negate flag, and every call of VisualizeBoundary
\* returns NOT_BOUNDED without spawning a marker.
C7_NoBoundary ==
    boundary.null =>
        /\ \A p \in Probe : IsInBoundary(p)
        /\ vb.pc = "done" => /\ vb.result = "LANG_CREATURE_MOVEMENT_NOT_BOUNDED"
                             /\ vb.markers = << >>

\* C7 amended: with no boundary configured IsInBoundary is true for every
\* position whatever the negate flag, and every call of VisualizeBoundary that
\* names a requesting unit returns NOT_BOUNDED without spawning a marker; a
\* call without a requesting unit returns -1 (and spawns no marker either).
C7_NoBoundaryWithOwner ==
    boundary.null =>
        /\ \A p \in Probe : IsInBoundary(p)
        /\ vb.pc = "done" =>
             /\ vb.markers = << >>
             /\ vb.result = IF vb.args.owner = NoOwner
                            THEN "-1" ELSE "LANG_CREATURE_MOVEMENT_NOT_BOUNDED"

\* Witness: a call with a requesting unit returned while no boundary was set
\* and the negate flag was on.
C7_Witness ==
    /\ boundary.null /\ negateBoundary
    /\ vb.pc = "done" /\ vb.args.owner # NoOwner

StatusSet ==
    { "0", "LANG_CREATURE_MOVEMENT_MAYBE_UNBOUNDED",
      "LANG_CREATURE_MOVEMENT_NOT_BOUNDED", "LANG_CREATURE_NO_INTERIOR_POINT_FOUND" }

\* C8 as stated: every call of VisualizeBoundary returns a status of the closed
\* set, whether the requesting unit is present or absent.
C8_StatusClosedSet ==
    vb.pc = "done" => vb.result \in StatusSet

\* C8 amended: every call of VisualizeBoundary that names a requesting unit
\* returns a status of the closed set {0, MAYBE_UNBOUNDED, NOT_BOUNDED,
\* NO_INTERIOR_POINT_FOUND}, for every boundary (absent, empty, non-empty) and
\* negate flag; a call without a requesting unit returns -1, which is not in
\* the set.
C8_StatusClosedSetWithOwner ==
    vb.pc = "done" =>
        IF vb.args.owner = NoOwner
        THEN vb.result = "-1" /\ vb.markers = << >>
        ELSE vb.result \in StatusSet

\* Witness: a call with a requesting unit reported that no interior point exists.
C8_Witness ==
    /\ vb.pc = "done" /\ vb.args.owner # NoOwner
    /\ vb.result = "LANG_CREATURE_NO_INTERIOR_POINT_FOUND"

\* C9: when a boundary is set, IsInBoundary(p) is (every area accepts p) XOR
\* the negate flag, for every position and area list; an empty boundary that is
\* set contains every point when not negated and none when negated.
C9_ContainsIsAndXorNegate ==
    ~boundary.null =>
        \A p \in Probe :
            IsInBoundary(p) =
                ((\A i \in 1..Len(boundary.areas) : IsWithinBoundary(boundary.areas[i], p))
                    # negateBoundary)

\* Witness: a negated two-area boundary with points on both sides, one of them
\* accepted by the first area only.
C9_Witness ==
    /\ ~boundary.null /\ Len(boundary.areas) = 2 /\ negateBoundary
    /\ \E p \in Probe : /\ IsWithinBoundary(boundary.areas[1], p)
                        /\ ~IsWithinBoundary(boundary.areas[2], p)
                        /\ IsInBoundary(p)
    /\ \E p \in Probe : ~IsInBoundary(p)

-----------------------------------------------------------------------------
(* Properties: GameObject loot-state machine                                *)

\* Every entry into GO_NOT_READY in the trace comes from GO_JUST_DEACTIVATED
\* (or from GO_NOT_READY itself).
EnteredFromDeactivated(trace) ==
    \A i \in 2..Len(trace) :
        trace[i] = "GO_NOT_READY" => trace[i - 1] \in {"GO_NOT_READY", "GO_JUST_DEACTIVATED"}

\* C2 (as stated): no operation, Update tick, DespawnOrUnsummon or Delete,
\* takes the instance to GO_NOT_READY from GO_READY or GO_ACTIVATED: the loot
\* state immediately before GO_NOT_READY is GO_JUST_DEACTIVATED.
C2_NeverSkipsJustDeactivated == EnteredFromDeactivated(go.lootTrace)

\* C2 (amended): an Update tick in which no delayed despawn comes due enters
\* GO_NOT_READY only from GO_JUST_DEACTIVATED; Delete, and DespawnOrUnsummon
\* when it disposes of the instance, set GO_NOT_READY directly from whatever
\* state the instance was in.
C2_TickNeverSkipsJustDeactivated ==
    /\ (goOp.name = "Update" /\ ~go.due) => EnteredFromDeactivated(go.lootTrace)
    /\ (goOp.name = "Delete" \/ (goOp.name = "DespawnOrUnsummon" /\ go.disposal # "none"))
          => (Len(go.lootTrace) = 2 /\ go.lootTrace[2] = "GO_NOT_READY")

\* C2 witness: a tick found the instance in GO_JUST_DEACTIVATED and took it to
\* GO_NOT_READY with a respawn scheduled.
C2_Witness ==
    /\ goOp.name = "Update"
    /\ ~go.due
    /\ go.lootTrace = << "GO_JUST_DEACTIVATED", "GO_NOT_READY" >>
    /\ go.scheduled
    /\ go.respawnTime > 0

\* The step is one Update tick of `diff` milliseconds.
TickOf(diff) == \E in \in TickInputs : go' = Update(go, diff, in)

\* No delayed despawn comes due in a tick of `diff` milliseconds.
NoDespawnDue(diff) == go.despawnDelay = 0 \/ go.despawnDelay > diff

\* The respawn path ran: the instance was re-added to the map or its pool.
Readded(g) == \E i \in 1..Len(g.log) : g.log[i] \in {"AddToMap", "UpdatePool"}

\* C3 (as stated): a compatibility-mode instance linked to itself, once
\* deactivated with a respawn time, is never respawned by a tick: it is not
\* re-added to the map, its respawn time does not return to 0 and its use
\* counter is not reset.
C3_SelfLinkedNeverRespawns ==
    [][ \A diff \in Diffs :
          ( /\ go.compat /\ go.link = "self" /\ go.spawnedByDefault
            /\ go.scheduled /\ go.respawnTime > 0
            /\ NoDespawnDue(diff)
            /\ TickOf(diff) )
          => (go'.respawnTime # 0 /\ ~Readded(go'))
      ]_vars

\* GetGameObjectOverride() has GO_FLAG_NODESPAWN on a goober.
KeptGoober(g) == g.tpl.type = "GOOBER" /\ g.tpl.hasOverride /\ g.tpl.overrideNoDespawn

\* The last operation was the tick that found the instance in GO_READY with
\* the compatibility-mode timer of a not-default instance expired.
ExpiryTick == goOp.name = "Update" /\ go.expired /\ go.lootTrace[1] = "GO_READY"

\* The last operation was the tick after such a tick, which had left the
\* instance in GO_JUST_DEACTIVATED.
TickAfterExpiry ==
    goOp.name = "Update" /\ go.wasExpired /\ go.lootTrace[1] = "GO_JUST_DEACTIVATED"

\* The instance had an owner when the last operation began.
HadOwner == go.owner \/ \E i \in 1..Len(go.log) : go.log[i] = "RemoveFromOwner"

\* C10 (as stated): the tick that finds the timer of a not-default instance
\* in GO_READY expired leaves it in GO_JUST_DEACTIVATED with respawn time 0,
\* and the tick after that removes it from the map (removal list or pool),
\* respawn time 0, with or without a spawn id.
C10_ExpiryRemovesInstance ==
    /\ ExpiryTick => (go.lootState = "GO_JUST_DEACTIVATED" /\ go.respawnTime = 0)
    /\ TickAfterExpiry => (go.disposal # "none" /\ go.respawnTime = 0)

\* C10 (amended): in ticks where no delayed despawn comes due: unless a linked
\* master is still dead (then the instance stays in GO_READY with a later
\* respawn time), the expiry tick leaves the instance in GO_JUST_DEACTIVATED
\* with respawn time 0. On the next tick the respawn time stays 0 and: a
\* goober whose override has GO_FLAG_NODESPAWN stays in GO_JUST_DEACTIVATED;
\* an instance with a creating spell or an owner, or without a spawn id, is
\* deleted (GO_NOT_READY, handed to the removal list or its pool); an instance
\* with a spawn id is only hidden from players: GO_NOT_READY, still on the map.
C10_ExpiryRemovesUnlessSpawnId ==
    /\ (ExpiryTick /\ ~go.due) =>
          IF go.masterDead
          THEN go.lootState = "GO_READY" /\ go.respawnTime > 0
          ELSE go.lootState = "GO_JUST_DEACTIVATED" /\ go.respawnTime = 0
    /\ (TickAfterExpiry /\ ~go.due) =>
          /\ go.respawnTime = 0
          /\ IF KeptGoober(go)
             THEN go.lootState = "GO_JUST_DEACTIVATED" /\ go.disposal = "none"
             ELSE IF go.spellId \/ HadOwner \/ go.spawnId = 0
             THEN go.lootState = "GO_NOT_READY" /\ go.disposal # "none"
             ELSE /\ go.lootState = "GO_NOT_READY"
                  /\ go.disposal = "none"
                  /\ go.log[Len(go.log)] = "DestroyForNearbyPlayers"

\* C10 witness: the tick after the expiry tick ran on an instance with a spawn
\* id; it is hidden, not removed.
C10_Witness ==
    /\ TickAfterExpiry
    /\ ~go.due
    /\ go.lootState = "GO_NOT_READY"
    /\ go.spawnId # 0
    /\ go.disposal = "none"
    /\ go.respawnTime = 0

-----------------------------------------------------------------------------
(* Properties: UpdateVictim                                                 *)

\* The last handler was UpdateVictim on an engaged creature in the passive
\* react state.
PassiveUpdate ==
    op.name = "UpdateVictim" /\ pre.engaged /\ pre.react = "REACT_PASSIVE"

EvadeCall == "EnterEvadeMode(EVADE_REASON_NO_HOSTILES)"

C12_PassiveOutOfCombatEvades ==
    op.name = "UpdateVictim" =>
        /\ (pre.react = "REACT_PASSIVE" /\ ~pre.inCombat)
              => (Made(EvadeCall) /\ op.ret = FALSE)
        /\ Made(EvadeCall) => (pre.react = "REACT_PASSIVE" /\ ~pre.inCombat)

\* C12 (amended): UpdateVictim calls EnterEvadeMode(NoHostiles), once and
\* first, and returns false exactly when the creature is engaged, passive and
\* not in combat; a creature that is not engaged gets false and no call at all.
C12_EngagedPassiveOutOfCombatEvades ==
    op.name = "UpdateVictim" =>
        /\ (pre.engaged /\ pre.react = "REACT_PASSIVE" /\ ~pre.inCombat)
              => (calls[1] = EvadeCall /\ op.ret = FALSE
                  /\ \A i \in 2..Len(calls) : calls[i] # EvadeCall)
        /\ Made(EvadeCall)
              => (pre.engaged /\ pre.react = "REACT_PASSIVE" /\ ~pre.inCombat)
        /\ ~pre.engaged => (calls = << >> /\ op.ret = FALSE /\ me = pre)

\* C12 witness: an engaged, passive creature out of combat was evaded by
\* UpdateVictim.
C12_Witness ==
    /\ PassiveUpdate /\ ~pre.inCombat
    /\ Made(EvadeCall) /\ Made("Reset")
    /\ me.evade

-----------------------------------------------------------------------------
(* Properties: MoveInLineOfSight_Safe                                       *)

\* C13: the perception callback is never re-entered: at most one
\* MoveInLineOfSight body is on the stack and only one was started since the
\* outermost MoveInLineOfSight_Safe was called; every nested call made while
\* the lock is set returned at once and left the lock set; and whenever no
\* body is running (the outermost call has returned, or none was made) the
\* lock is false.
C13_NoReentry ==
    /\ los.depth <= 1
    /\ los.invoked <= 1
    /\ los.depth = 1 => (los.locked /\ los.skipped = los.attempts)
    /\ los.depth = 0 => ~los.locked

\* C13 witness: MoveInLineOfSight_Safe was called again while the callback
\* was running and the nested call returned at once, the lock still set.
C13_Witness ==
    /\ los.depth = 1 /\ los.locked
    /\ los.attempts >= 1 /\ los.skipped >= 1

-----------------------------------------------------------------------------
(* Properties: movement and Reset on evade entry                            *)

\* The calls of the last handler that follow the cleanup of _EnterEvadeMode.
AfterCleanup == SubSeq(calls, Len(EvadeCleanupCalls) + 1, Len(calls))

\* How many times the last handler made the call.
Times(call) == Cardinality({ i \in 1..Len(calls) : calls[i] = call })

\* The last handler was EnterEvadeMode and the entry succeeded: the creature
\* was alive and not yet in evade mode.
EvadeEntered == op.name = "EnterEvadeMode" /\ pre.alive /\ ~pre.evade

\* The last handler was EnterEvadeMode and the entry was refused.
EvadeRefused == op.name = "EnterEvadeMode" /\ (~pre.alive \/ pre.evade)

\* C19: on a successful evade entry exactly one movement disposition applies.
\* Vehicle-bound: no movement command, evade flag not set, movement as it was.
\* Else with a charmer or owner: movement cleared, then follow the owner,
\* evade flag not set. Else: evade flag set, then move to the home position.
C19_OneMovementDisposition ==
    EvadeEntered =>
        /\ SubSeq(calls, 1, Len(EvadeCleanupCalls)) = EvadeCleanupCalls
        /\ pre.vehicle =>
              /\ AfterCleanup = <<"Reset">>
              /\ ~me.evade /\ me.motion = pre.motion
        /\ (~pre.vehicle /\ pre.owner) =>
              /\ AfterCleanup = <<"MotionMaster.Clear", "MoveFollow", "Reset">>
              /\ ~me.evade /\ me.motion = "follow"
        /\ (~pre.vehicle /\ ~pre.owner) =>
              /\ AfterCleanup = <<"AddUnitState(UNIT_STATE_EVADE)",
                                  "MoveTargetedHome", "Reset">>
              /\ me.evade /\ me.motion = "home"

\* C19 witness: an owned creature that was chasing a victim entered evade
\* mode and follows its owner again.
C19_Witness ==
    /\ EvadeEntered /\ ~pre.vehicle /\ pre.owner /\ pre.motion = "chase"
    /\ Made("MoveFollow") /\ me.motion = "follow"

\* C20: EnterEvadeMode fires Reset exactly once, as its last call, on every
\* successful entry, vehicle-bound and owned creatures included; it never
\* fires Reset when the entry is refused; and on a dead creature it makes no
\* call and changes nothing.
C20_ResetOncePerEntry ==
    /\ EvadeEntered => (Times("Reset") = 1 /\ calls[Len(calls)] = "Reset")
    /\ EvadeRefused => Times("Reset") = 0
    /\ (op.name = "EnterEvadeMode" /\ ~pre.alive) => (calls = << >> /\ me = pre)

\* C20 witness: a vehicle-bound creature in combat entered evade mode; no
\* movement command was issued and Reset was fired.
C20_Witness ==
    /\ EvadeEntered /\ pre.vehicle /\ pre.inCombat
    /\ Made("Reset") /\ \A m \in MovementCalls : ~Made(m)

-----------------------------------------------------------------------------
(* Properties: respawn mode                                                 *)

\* C14: the respawn mode of an instance never changes after it was created or
\* loaded: no Update tick, Use, SetLootState, door reset, despawn, Respawn,
\* SetRespawnTime or Delete changes m_respawnCompatibilityMode.
C14_RespawnModeFixed == [][go'.compat = go.compat]_vars

\* C14 witness: a modern-mode spawn was deactivated and removed from the map
\* by its Update, still in modern mode as its group says.
C14_Witness ==
    /\ goOp.name = "Update" /\ go.hasData
    /\ ~go.compat /\ ~go.groupCompat
    /\ go.disposal = "removeList" /\ go.store > 0

\* C15: a spawn with a negative spawn time is loaded, whatever the mode of its
\* group, in compatibility mode, not spawned by default, with respawn delay
\* the absolute spawn time and respawn time 0; no loaded instance is both not
\* spawned by default and in modern mode; and an instance created without
\* spawn data is in compatibility mode.
C15_NotDefaultLoadsCompatible ==
    /\ (goOp = NoGoOp /\ go.hasData /\ go.spawntimesecs < 0) =>
          /\ go.compat /\ ~go.spawnedByDefault
          /\ go.respawnDelayTime = -go.spawntimesecs
          /\ go.respawnTime = 0
          /\ go.inWorld
    /\ (go.hasData /\ ~go.spawnedByDefault) => go.compat
    /\ ~go.hasData => go.compat

\* C15 witness: a spawn with negative spawn time of a modern-mode group was
\* loaded and is in compatibility mode.
C15_Witness ==
    /\ goOp = NoGoOp /\ go.hasData /\ go.spawntimesecs < 0
    /\ ~go.groupCompat /\ go.compat /\ ~go.spawnedByDefault

-----------------------------------------------------------------------------
(* Properties: OnLootStateChanged                                           *)

\* C16: every change of the loot state fires OnLootStateChanged: each loot
\* state assigned in the last operation that differs from the one before it
\* was announced by the hook, and the hook was called once per assignment
\* made through SetLootState. This covers the arming from GO_NOT_READY to
\* GO_READY and the fishing-bobber transitions inside Update.
C16_EveryLootChangeFiresHook ==
    /\ Len(go.hookTrace) = Len(go.lootTrace) - 1
    /\ \A i \in 1..Len(go.hookTrace) :
          go.lootTrace[i + 1] # go.lootTrace[i] => go.hookTrace[i]

-----------------------------------------------------------------------------
(* Properties: respawn in the two modes                                     *)

\* The last operation was a tick that ran the GO_JUST_DEACTIVATED case.
DeactivationTick ==
    goOp.name = "Update" /\ go.lootTrace[1] = "GO_JUST_DEACTIVATED" /\ ~go.due

\* The instance is spawned by default with a respawn delay, was not created
\* by a spell and had no owner when the last operation began.
PlainSpawn ==
    go.spawnedByDefault /\ go.respawnDelayTime # 0 /\ ~go.spellId /\ ~HadOwner

\* The last operation was a tick that found the instance waiting for its
\* respawn (GO_NOT_READY or GO_READY) with the compatibility timer expired,
\* and in which no delayed despawn came due.
RespawnTick ==
    /\ goOp.name = "Update" /\ go.timerDue /\ ~go.due
    /\ go.lootTrace[1] \in {"GO_NOT_READY", "GO_READY"}

\* C17 (as stated): a tick that processes a spawned-by-default instance with a
\* respawn delay (no spell, no owner) in GO_JUST_DEACTIVATED records, in
\* modern mode, its respawn time and puts it on the removal list, and in
\* compatibility mode leaves it on the map; a modern-mode instance is never
\* re-added by its Update; and a tick that begins with the compatibility
\* timer expired and no master dead re-adds the instance with respawn time
\* and use count 0.
C17_DeactivationByMode ==
    /\ (DeactivationTick /\ PlainSpawn /\ ~go.compat) =>
          /\ go.respawnTime > 0 /\ go.store = go.respawnTime
          /\ go.disposal = "removeList"
    /\ (DeactivationTick /\ PlainSpawn /\ go.compat) => go.disposal = "none"
    /\ (goOp.name = "Update" /\ ~go.compat) => ~Readded(go)
    /\ (RespawnTick /\ PlainSpawn /\ ~go.linkDead) =>
          /\ Readded(go) /\ go.respawnTime = 0 /\ go.usetimes = 0

\* C17 (amended): as stated, except that a goober whose override has
\* GO_FLAG_NODESPAWN is left in GO_JUST_DEACTIVATED on the map in either mode,
\* with no respawn time recorded for it by that tick. Any other such instance:
\* in modern mode its respawn time (now plus the respawn delay) is stored and
\* it is put on the removal list, in GO_NOT_READY; in compatibility mode it
\* stays on the map in GO_NOT_READY with that respawn time set. A modern-mode
\* instance is never re-added by its Update. A tick that finds a
\* compatibility-mode instance waiting (GO_NOT_READY or GO_READY) with the
\* timer expired and no linked respawn time re-adds it to the map, or hands
\* it to its pool, with respawn time and use count 0.
C17_DeactivationByModeUnlessKept ==
    /\ (DeactivationTick /\ PlainSpawn /\ KeptGoober(go)) =>
          /\ go.lootState = "GO_JUST_DEACTIVATED" /\ go.disposal = "none"
          /\ \A i \in 1..Len(go.log) :
                go.log[i] \notin {"AddObjectToRemoveList", "DestroyForNearbyPlayers"}
    /\ (DeactivationTick /\ PlainSpawn /\ ~KeptGoober(go) /\ ~go.compat) =>
          /\ go.lootState = "GO_NOT_READY"
          /\ go.respawnTime > 0 /\ go.store = go.respawnTime /\ go.scheduled
          /\ go.disposal = "removeList"
          /\ go.log[Len(go.log)] = "AddObjectToRemoveList"
    /\ (DeactivationTick /\ PlainSpawn /\ ~KeptGoober(go) /\ go.compat) =>
          /\ go.lootState = "GO_NOT_READY"
          /\ go.respawnTime > 0 /\ go.scheduled
          /\ go.disposal = "none"
    /\ (goOp.name = "Update" /\ ~go.compat) => ~Readded(go)
    /\ (RespawnTick /\ PlainSpawn /\ ~go.linkDead) =>
          /\ Readded(go) /\ go.respawnTime = 0 /\ go.usetimes = 0

\* C17 witness: a compatibility-mode spawn, deactivated earlier, was found by
\* a tick with its timer expired and was re-added to the map.
C17_Witness ==
    /\ RespawnTick /\ PlainSpawn /\ ~go.linkDead /\ go.compat
    /\ Readded(go) /\ go.respawnTime = 0 /\ go.disposal = "none"

-----------------------------------------------------------------------------
(* Properties: linked respawn                                               *)

\* The step is a tick, with no delayed despawn due, of a compatibility-mode
\* instance that waits for its respawn (GO_NOT_READY or GO_READY, not a
\* fishing bobber) with the timer expired, linked to another spawn whose
\* stored respawn time is not 0.
MasterDeadTick ==
    /\ go.compat /\ go.link = "other" /\ masterRespawn # 0
    /\ go.respawnTime > 0 /\ go.respawnTime <= now
    /\ go.lootState \in {"GO_NOT_READY", "GO_READY"}
    /\ go.tpl.type # "FISHINGNODE"
    /\ go.disposal = "none"
    /\ goOp'.name = "Update" /\ now' = now /\ masterRespawn' = masterRespawn
    /\ NoDespawnDue(goOp'.diff)

\* The tick did not respawn the instance and set its respawn time to
\* max(now, master's respawn time) plus the random addition, later than now.
NotRespawnedButDelayed ==
    /\ ~Readded(go')
    /\ go'.usetimes = go.usetimes
    /\ \E jitter \in LinkedRespawnJitter :
          go'.respawnTime = Max(now, masterRespawn) + jitter
    /\ go'.respawnTime > now

-----------------------------------------------------------------------------
(* Properties: perception, owner combat and alert                           *)

\* The last handler was MoveInLineOfSight(who), run under MoveInLineOfSight_Safe.
Perceived == op.name = "MoveInLineOfSight_Safe"

\* C21: MoveInLineOfSight(who) engages the creature with who if and only if it
\* was not engaged, its react state is aggressive and it can start an attack
\* on who; in every other case, and always when it was already engaged, the
\* call makes no call and changes nothing.
C21_PerceptionEngagesOnce ==
    Perceived =>
        IF ~pre.engaged /\ pre.react = "REACT_AGGRESSIVE" /\ op.canStartAttack
        THEN /\ calls = <<EngageCall(op.who)>>
             /\ me = [pre EXCEPT !.engaged = TRUE, !.inCombat = TRUE]
        ELSE calls = << >> /\ me = pre

\* C21 witness: an aggressive creature already engaged and attacking one unit
\* saw another unit it could attack, and nothing changed.
C21_Witness ==
    /\ Perceived /\ pre.engaged /\ pre.react = "REACT_AGGRESSIVE" /\ op.canStartAttack
    /\ pre.victim # NoUnit /\ op.who # pre.victim
    /\ calls = << >> /\ me = pre

\* The last handler was TriggerAlert for a hostile player.
HostilePlayerNear == op.name = "TriggerAlert" /\ op.who = "player" /\ op.in.hostile

\* TriggerAlert alerted: reaction signal sent, creature distracted for 5 s.
Alerted ==
    /\ calls = AlertCalls
    /\ op.time = 5000
    /\ me = [pre EXCEPT !.distracted = TRUE, !.motion = "distract"]

\* C22 (as stated): when a hostile player comes near a creature that is in a
\* non-aggressive react state and not in combat, TriggerAlert sends the alert
\* reaction and distracts the creature for 5 seconds, without engaging it;
\* and TriggerAlert never engages the creature.
C22_AlertsNonAggressive ==
    /\ (HostilePlayerNear /\ pre.react # "REACT_AGGRESSIVE"
          /\ ~pre.engaged /\ ~pre.inCombat) => Alerted
    /\ op.name = "TriggerAlert" =>
          (me.engaged = pre.engaged /\ me.inCombat = pre.inCombat
             /\ \A who \in Units : ~Made(EngageCall(who)))

\* C22 (amended): TriggerAlert alerts (alert reaction sent, creature facing
\* the unit in the distracted state for 5 seconds) if and only if the unit is
\* a player, the creature is not engaged, not distracted already and not
\* confused, stunned or fleeing, it is not a civilian, its react state is not
\* passive, it is hostile to the player and the player is an acceptable
\* target; otherwise it does nothing. It never engages the creature.
C22_AlertsUnlessPassive ==
    op.name = "TriggerAlert" =>
        /\ IF /\ op.who = "player"
              /\ ~pre.engaged /\ ~pre.distracted /\ ~op.in.impaired
              /\ ~op.in.civilian /\ pre.react # "REACT_PASSIVE"
              /\ op.in.hostile /\ op.in.acceptable
           THEN Alerted
           ELSE calls = << >> /\ me = pre /\ op.time = 0
        /\ me.engaged = pre.engaged /\ me.inCombat = pre.inCombat
        /\ \A who \in Units : ~Made(EngageCall(who))

\* C22 witness: a defensive creature at rest was alerted by a hostile player.
C22_Witness ==
    /\ HostilePlayerNear /\ pre.react = "REACT_DEFENSIVE" /\ ~pre.engaged
    /\ Alerted /\ ~me.engaged

\* The last handler was _OnOwnerCombatInteraction(target).
OwnerInteraction == op.name = "OnOwnerCombatInteraction"

\* The creature is engaged with the target of the last handler.
EngagedTarget ==
    /\ calls = <<EngageCall(op.target)>>
    /\ me = [pre EXCEPT !.engaged = TRUE, !.inCombat = TRUE]

\* C23 (as stated): _OnOwnerCombatInteraction(target) does nothing when the
\* creature is already in combat; otherwise it engages target if and only if
\* target exists, the creature is alive, its react state is not passive and
\* it can start an attack on target.
C23_OwnerCombatSkipsEngaged ==
    OwnerInteraction =>
        IF pre.engaged \/ pre.inCombat
        THEN calls = << >> /\ me = pre
        ELSE IF /\ op.target # NoUnit /\ pre.alive
                /\ pre.react # "REACT_PASSIVE" /\ op.canStartAttack
             THEN EngagedTarget
             ELSE calls = << >> /\ me = pre

\* C23 (amended): _OnOwnerCombatInteraction(target) engages target if and only
\* if target exists, the creature is alive, its react state is not passive
\* and it can start an attack on target, whether or not the creature is
\* already engaged or in combat; otherwise it does nothing. An aggressive
\* react state is not required.
C23_OwnerCombatEngages ==
    OwnerInteraction =>
        IF /\ op.target # NoUnit /\ pre.alive
           /\ pre.react # "REACT_PASSIVE" /\ op.canStartAttack
        THEN EngagedTarget
        ELSE calls = << >> /\ me = pre

\* C23 witness: a defensive creature already engaged and attacking one unit
\* was engaged with its owner's target as well.
C23_Witness ==
    /\ OwnerInteraction /\ pre.engaged /\ pre.react = "REACT_DEFENSIVE"
    /\ pre.victim # NoUnit /\ op.target # pre.victim
    /\ Made(EngageCall(op.target))

-----------------------------------------------------------------------------
(* C24: building health stays in range                                      *)

\* C24: after any sequence of ModifyHealth and SetDestructibleState the health
\* of the instance lies in [0, MaxHealth], for every int32 change, and a
\* ModifyHealth with change 0 or on an instance with MaxHealth 0 changes
\* nothing.
C24_HealthClamped ==
    /\ go.health >= 0
    /\ go.health <= go.maxHealth
    /\ (goOp.name = "ModifyHealth" /\ (goOp.change = 0 \/ goOp.before.maxHealth = 0))
          => go = goOp.before

\* C24 witness: a damaged building was healed by the largest int32, an
\* addition that leaves the range, and its health is in range.
C24_Witness ==
    /\ goOp.name = "ModifyHealth"
    /\ goOp.change = INT32_MAX
    /\ goOp.before.health = DamagedHealth
    /\ go.maxHealth = BuildingHealth
    /\ go.health \in {0, BuildingHealth}

-----------------------------------------------------------------------------
(* C25: the go-state of a transport                                         *)

\* C25: the go-state of a transport is never below GO_STATE_TRANSPORT_ACTIVE:
\* after Create, after every SetTransportState, after Delete or
\* DespawnOrUnsummon, and after every Update.
C25_TransportStateAtLeastActive ==
    go.tpl.type = "TRANSPORT"
        => GoStateOrdinal(go.goState) >= GO_STATE_TRANSPORT_ACTIVE

-----------------------------------------------------------------------------
(* C26: collision of the model                                              *)

\* The collision SetLootState(state) computes from the go-state.
LootCollision(state) ==
    \/ state = "GO_READY"
    \/ (state \in {"GO_ACTIVATED", "GO_JUST_DEACTIVATED"} /\ go.goState # "GO_STATE_READY")

\* For the types in `exempt`: collision follows SetLootState for every other
\* type with a model; for the exempt types a loot-state change leaves the
\* collision alone and the collision is on exactly when the go-state is
\* GO_STATE_READY.
CollisionRule(exempt) ==
    /\ (goOp.name = "SetLootState" /\ go.tpl.hasModel /\ go.tpl.type \notin exempt)
          => (go.collision <=> LootCollision(goOp.state))
    /\ (goOp.name = "SetLootState" /\ go.tpl.type \in exempt)
          => go.collision = goOp.collision
    /\ (go.tpl.hasModel /\ go.inWorld /\ go.tpl.type \in exempt)
          => (go.collision <=> go.goState = "GO_STATE_READY")

\* C26 as stated: doors and buttons are exempt from the collision update of
\* SetLootState and their collision follows the go-state only.
C26_DoorsAndButtonsFollowGoState == CollisionRule({"DOOR", "BUTTON"})

\* C26, amended: only doors are exempt; a button is treated as every other
\* type with a model.
C26_DoorsFollowGoState == CollisionRule({"DOOR"})

\* C26 witness: a loot-state change switched off the collision of a button
\* whose go-state is GO_STATE_READY.
C26_Witness ==
    /\ goOp.name = "SetLootState"
    /\ go.tpl.type = "BUTTON"
    /\ go.goState = "GO_STATE_READY"
    /\ goOp.collision
    /\ ~go.collision

-----------------------------------------------------------------------------
(* C27: where the fill puts its markers                                     *)

\* The cell has a 4-neighbour that the fill classified as outside.
OutsideNeighbour(c) == Neighbours(c) \cap vb.outOfBounds # {}

MarkedCells == { vb.markers[i].cell : i \in 1..Len(vb.markers) }

-----------------------------------------------------------------------------
(* C28: the final disposition in GO_JUST_DEACTIVATED                        *)

\* This step is a tick that runs the GO_JUST_DEACTIVATED case on the instance.
JustDeactivatedTick ==
    /\ Resident /\ go.lootState = "GO_JUST_DEACTIVATED"
    /\ goOp'.name = "Update" /\ ~go'.due
    /\ UNCHANGED <<now, masterRespawn>>

\* Delete ran with the respawn time cleared: nothing brings the instance back.
PermanentlyDeleted(g) == g.disposal # "none" /\ g.respawnTime = 0

\* The chest that is not deleted: respawn time pending, not consumed on loot.
PendingChest(g) == g.respawnTime > 0 /\ g.tpl.type = "CHEST" /\ ~g.tpl.despawnAtAction

\* The step keeps the instance on the map in GO_READY, respawn time untouched.
KeptReady == 
    go'.lootState = "GO_READY" /\ go'.disposal = "none" /\ go'.respawnTime = go.respawnTime

\* C28 (as stated): the tick that processes GO_JUST_DEACTIVATED deletes the
\* instance for good when it is not spawned by default or was summoned by a
\* spell and has no owner; keeps a spell-summoned chest with a pending respawn
\* time that is not consumed on loot, in GO_READY; and in every other case
\* with a respawn delay sets the respawn time to now plus the delay.
C28_FinalDisposition ==
    [][ JustDeactivatedTick =>
          LET chest == go.spellId /\ PendingChest(go)
              gone  == ~go.spawnedByDefault \/ (go.spellId /\ ~go.owner)
          IN /\ chest => KeptReady
             /\ (~chest /\ gone) => PermanentlyDeleted(go')
             /\ (~chest /\ ~gone /\ go.respawnDelayTime # 0)
                   => go'.respawnTime = now + go.respawnDelayTime
      ]_vars

\* C28 (amended): a goober whose override has GO_FLAG_NODESPAWN is left as it
\* is.  Otherwise an instance summoned by a spell or with an owner is deleted
\* for good, unless it is a chest with a pending respawn time that is not
\* consumed on loot, which is kept in GO_READY.  Any other instance goes to
\* GO_NOT_READY and, when it has a respawn delay: not spawned by default, its
\* respawn time is cleared and it is deleted if it has no spawn id but only
\* hidden from the players, staying on the map, if it has one; spawned by
\* default, its respawn time is set to now plus the delay.
C28_FinalDispositionBySpawn ==
    [][ JustDeactivatedTick =>
          LET summoned == go.spellId \/ go.owner IN
          /\ KeptGoober(go) =>
                /\ go'.lootState = "GO_JUST_DEACTIVATED" /\ go'.disposal = "none"
                /\ go'.respawnTime = go.respawnTime
          /\ (~KeptGoober(go) /\ summoned /\ PendingChest(go)) => KeptReady
          /\ (~KeptGoober(go) /\ summoned /\ ~PendingChest(go)) =>
                PermanentlyDeleted(go') /\ go'.lootState = "GO_NOT_READY"
          /\ (~KeptGoober(go) /\ ~summoned) => go'.lootState = "GO_NOT_READY"
          /\ (~KeptGoober(go) /\ ~summoned /\ go.respawnDelayTime = 0) =>
                go'.disposal = "none" /\ go'.respawnTime = go.respawnTime
          /\ (~KeptGoober(go) /\ ~summoned /\ go.respawnDelayTime # 0
                 /\ ~go.spawnedByDefault) =>
                /\ go'.respawnTime = 0
                /\ go.spawnId = 0 => PermanentlyDeleted(go')
                /\ go.spawnId # 0 =>
                      /\ go'.disposal = "none"
                      /\ go'.log[Len(go'.log)] = "DestroyForNearbyPlayers"
          /\ (~KeptGoober(go) /\ ~summoned /\ go.respawnDelayTime # 0
                 /\ go.spawnedByDefault) =>
                go'.respawnTime = now + go.respawnDelayTime
      ]_vars

\* C28 witness: a tick processed a spell-summoned chest with a pending
\* respawn time in GO_JUST_DEACTIVATED and returned it to GO_READY.
C28_Witness ==
    /\ goOp.name = "Update" /\ ~go.due
    /\ go.lootTrace = << "GO_JUST_DEACTIVATED", "GO_READY" >>
    /\ go.spellId /\ PendingChest(go)
    /\ go.disposal = "none"

-----------------------------------------------------------------------------
(* C29: the stored respawn time across a restart                            *)

\* The instance has just been loaded from the gameobject table as a
\* spawned-by-default object that can despawn.
LoadedDespawnable ==
    /\ goOp = NoGoOp /\ go.hasData /\ go.spawnedByDefault
    /\ (go.tpl.despawnPossibility \/ go.tpl.despawnAtAction)

\* This step is a tick in which the instance respawns: it is put back on the
\* map or handed to its pool, and no delayed despawn came due.
RespawningTick ==
    /\ Resident /\ goOp'.name = "Update" /\ UNCHANGED <<now, masterRespawn>>
    /\ Readded(go') /\ ~go'.due

\* Loading (the first state) keeps no expired record: a stored time that is left is in the
\* future, is the respawn time of the instance, and the instance is not
\* spawned; without a stored time the instance loads spawned.
LoadKeepsFutureRecordOnly ==
    LoadedDespawnable =>
        /\ go.store # 0 => (go.store > now /\ go.respawnTime = go.store /\ ~isSpawned(go))
        /\ go.store = 0 => (go.respawnTime = 0 /\ isSpawned(go))

\* C29: a stored respawn time that has expired is cleared at load and its
\* record removed, one in the future is kept and the instance stays
\* despawned until game time reaches it, and the record of an instance is
\* cleared whenever it respawns, by its tick or by Respawn().
C29_RespawnRecordLifecycle ==
    /\ LoadKeepsFutureRecordOnly
    /\ [][ /\ RespawningTick =>
                /\ go.respawnTime > 0 /\ go.respawnTime <= now
                /\ go'.respawnTime = 0
                /\ go'.store = 0
           /\ (Resident /\ goOp'.name = "Respawn" /\ go.spawnedByDefault
                  /\ go.respawnTime > 0) => go'.store = 0
         ]_vars

-----------------------------------------------------------------------------
(* C30: the loot state is one of four values                                *)

\* C30: after any sequence of Update, Use, UseDoorOrButton, ResetDoorOrButton,
\* DespawnOrUnsummon, Delete and SetLootState the loot state is one of
\* GO_NOT_READY, GO_READY, GO_ACTIVATED and GO_JUST_DEACTIVATED, every loot
\* state the last operation went through is one of them, and an instance is
\* in GO_NOT_READY after construction and until the first operation on it.
C30_LootStateOneOfFour ==
    /\ go.lootState \in LootStates
    /\ \A i \in 1..Len(go.lootTrace) : go.lootTrace[i] \in LootStates
    /\ \A tpl \in Templates : Constructed(tpl).lootState = "GO_NOT_READY"
    /\ goOp = NoGoOp => go.lootState = "GO_NOT_READY"

\* C30 witness: a door opened through UseDoorOrButton is in GO_ACTIVATED,
\* having been armed by a tick before.
C30_Witness ==
    /\ goOp.name = "UseDoorOrButton"
    /\ go.tpl.type = "DOOR"
    /\ go.lootTrace = << "GO_READY", "GO_ACTIVATED" >>
    /\ go.lootState = "GO_ACTIVATED"

-----------------------------------------------------------------------------
(* C31: no coordinate is checked twice                                      *)

\* The sequence has no element twice.
NoRepeats(q) == \A i, j \in 1..Len(q) : q[i] = q[j] => i = j

\* Every cell that has entered the queue so far, in order.
Enqueued == vb.processed \o vb.Q

\* C31: the fill never checks a coordinate twice: every grid cell, the seed
\* (0,0) included, is classified at most once, enqueued at most once and gets
\* at most one marker; cells classified as outside are never enqueued or
\* expanded from; every classified cell is an axis neighbour of an expanded one.
C31_NoCoordinateTwice ==
    Filling =>
        /\ NoRepeats(vb.classified)
        /\ NoRepeats(Enqueued)
        /\ NoRepeats([ i \in 1..Len(vb.markers) |-> vb.markers[i].cell ])
        /\ vb.outOfBounds \cap SeqSet(Enqueued) = {}
        /\ \A c \in SeqSet(vb.classified) :
               \E p \in SeqSet(vb.processed) \cup SeqSet(vb.Q) : c \in Neighbours(p)

-----------------------------------------------------------------------------
(* C32: GO_JUST_DEACTIVATED is transient                                    *)

\* The last operation was a tick that began with the instance in
\* GO_JUST_DEACTIVATED.
TickFromJustDeactivated ==
    goOp.name = "Update" /\ go.lootTrace[1] = "GO_JUST_DEACTIVATED"

\* The instance has been handed to the removal list or to its pool.
ScheduledForRemoval == go.disposal # "none"

\* C32 (as stated): every Update tick that starts with the instance in
\* GO_JUST_DEACTIVATED ends with it in GO_READY or GO_NOT_READY or scheduled
\* for removal, for every subtype and override-flag configuration.
C32_JustDeactivatedTransient ==
    TickFromJustDeactivated =>
        \/ go.lootState \in {"GO_READY", "GO_NOT_READY"}
        \/ ScheduledForRemoval

\* C32 (amended): every such tick ends with the instance in GO_READY or
\* GO_NOT_READY, or deleted by a delayed despawn that came due in the tick,
\* except for a goober whose override carries GO_FLAG_NODESPAWN (and whose
\* delayed despawn did not come due): that one is in GO_JUST_DEACTIVATED
\* after the tick, still on the map.
C32_JustDeactivatedTransientUnlessKept ==
    TickFromJustDeactivated =>
        IF KeptGoober(go) /\ ~go.due
        THEN go.lootState = "GO_JUST_DEACTIVATED" /\ ~ScheduledForRemoval
        ELSE \/ go.lootState \in {"GO_READY", "GO_NOT_READY"}
             \/ go.due /\ ScheduledForRemoval

\* C32 witness: a tick took a summoned chest from GO_JUST_DEACTIVATED back to
\* GO_READY.
C32_Witness ==
    /\ TickFromJustDeactivated
    /\ go.tpl.type = "CHEST"
    /\ go.lootState = "GO_READY"
    /\ ~ScheduledForRemoval

-----------------------------------------------------------------------------
(* C33: doors and buttons never really despawn                              *)

DoorOrButton == go.tpl.type \in {"DOOR", "BUTTON"}

\* C33: a door or button, loaded from the table or created at run time, that
\* was used and reset passes GO_JUST_DEACTIVATED and GO_NOT_READY and is back
\* in GO_READY on the tick after; the tick that finds it in
\* GO_JUST_DEACTIVATED schedules no respawn time and neither puts it on the
\* removal list nor hides it from the players.
C33_DoorsNeverDespawn ==
    /\ (DoorOrButton /\ TickFromJustDeactivated) =>
           /\ go.lootState = "GO_NOT_READY"
           /\ go.respawnTime = 0
           /\ ~ScheduledForRemoval
           /\ \A i \in 1..Len(go.log) :
                  go.log[i] \notin {"DestroyForNearbyPlayers", "AddObjectToRemoveList"}
    /\ (DoorOrButton /\ goOp.name = "Update" /\ go.lootTrace[1] = "GO_NOT_READY") =>
           go.lootState = "GO_READY"

-----------------------------------------------------------------------------
(* C34: UseDoorOrButton and ResetDoorOrButton                               *)

\* This step is a call of UseDoorOrButton, of ResetDoorOrButton.
UseDoorStep ==
    goOp'.name = "UseDoorOrButton" /\ Resident /\ UNCHANGED <<now, masterRespawn>>

ResetDoorStep ==
    goOp'.name = "ResetDoorOrButton" /\ Resident /\ UNCHANGED <<now, masterRespawn>>

\* The call changed nothing on the instance.
NoOp == go' = Begin(go)

\* The go-state a switch leaves: closed opens, open closes.
Toggled(goState) ==
    IF goState = "GO_STATE_READY"
    THEN {"GO_STATE_ACTIVE", "GO_STATE_ACTIVE_ALTERNATIVE"}
    ELSE {"GO_STATE_READY"}

\* UseDoorOrButton acts only in GO_READY: in-use flag set, go-state toggled,
\* loot state GO_ACTIVATED; it is a no-op in every other state.
UseDoorContract ==
    UseDoorStep =>
        IF go.lootState = "GO_READY"
        THEN /\ go'.flagInUse
             /\ go'.goState \in Toggled(go.goState)
             /\ go'.lootState = "GO_ACTIVATED"
        ELSE NoOp

\* ResetDoorOrButton is a no-op in GO_READY and GO_JUST_DEACTIVATED; otherwise
\* the in-use flag is cleared, the go-state recorded at creation is restored,
\* the cooldown is cleared and the loot state is GO_JUST_DEACTIVATED.
ResetDoorContract ==
    ResetDoorStep =>
        IF go.lootState \in {"GO_READY", "GO_JUST_DEACTIVATED"}
        THEN NoOp
        ELSE /\ ~go'.flagInUse
             /\ go'.goState = go.prevGoState
             /\ go'.cooldownTime = 0
             /\ go'.lootState = "GO_JUST_DEACTIVATED"

\* The go-state recorded at creation is never written again.
CreationStateKept == go'.prevGoState = go.prevGoState

\* This step is the ResetDoorOrButton of a UseDoorOrButton, ResetDoorOrButton
\* pair: the operation before it was UseDoorOrButton.
ResetAfterUse == goOp.name = "UseDoorOrButton" /\ ResetDoorStep

\* C34 (as stated): the two contracts, and hence UseDoorOrButton followed by
\* ResetDoorOrButton always leaves the go-state equal to the creation go-state.
C34_UseThenResetRestores ==
    [][ /\ UseDoorContract
        /\ ResetDoorContract
        /\ CreationStateKept
        /\ ResetAfterUse => go'.goState = go'.prevGoState
      ]_vars

\* C34 (amended): the two contracts, and UseDoorOrButton followed by
\* ResetDoorOrButton leaves the go-state equal to the creation go-state
\* unless the pair began in GO_JUST_DEACTIVATED, where both calls are no-ops
\* and the go-state stays what it was.
C34_UseThenResetRestoresUnlessDeactivated ==
    [][ /\ UseDoorContract
        /\ ResetDoorContract
        /\ CreationStateKept
        /\ ResetAfterUse =>
              IF go.lootState = "GO_JUST_DEACTIVATED"
              THEN go'.goState = go.goState
              ELSE go'.goState = go'.prevGoState
      ]_vars

\* C34 witness: a door created closed was opened by UseDoorOrButton and
\* closed again by the ResetDoorOrButton that followed.
C34_Witness ==
    /\ goOp.name = "ResetDoorOrButton"
    /\ go.lootTrace = << "GO_ACTIVATED", "GO_JUST_DEACTIVATED" >>
    /\ go.tpl.type = "DOOR"
    /\ go.goState = "GO_STATE_READY" /\ go.prevGoState = "GO_STATE_READY"

-----------------------------------------------------------------------------
(* C35: the auto-reset of doors and buttons                                 *)

\* This step activates a door or button: UseDoorOrButton, directly with a
\* restore time or through Use (restore time 0), on an instance in GO_READY.
DoorActivation ==
    /\ Resident /\ DoorOrButton /\ go.lootState = "GO_READY"
    /\ goOp'.name \in {"UseDoorOrButton", "Use"}
    /\ UNCHANGED <<now, masterRespawn>>

\* The restore time in force: the argument, or the auto-close time of the
\* template when the argument is 0.
RestoreTime ==
    LET arg == IF goOp'.name = "UseDoorOrButton" THEN goOp'.time_to_restore ELSE 0
    IN IF arg # 0 THEN arg ELSE go.tpl.autoCloseTime

\* This step is a tick on an activated door or button.
ActivatedDoorTick ==
    /\ Resident /\ DoorOrButton /\ go.lootState = "GO_ACTIVATED"
    /\ goOp'.name = "Update"
    /\ UNCHANGED <<now, masterRespawn>>

\* C35: the activation records activation time plus restore time (0 when
\* the restore time is 0); a tick resets the activated door or button if
\* and only if a time is recorded and game time has reached it; with none
\* recorded it leaves GO_ACTIVATED only by a call of ResetDoorOrButton.
C35_AutoResetAtRestoreTime ==
    [][ /\ DoorActivation =>
              /\ go'.lootState = "GO_ACTIVATED"
              /\ go'.cooldownTime = IF RestoreTime # 0 THEN GameTimeMS + RestoreTime
                                    ELSE 0
        /\ ActivatedDoorTick =>
              IF go.cooldownTime # 0 /\ GameTimeMS >= go.cooldownTime
              THEN /\ go'.lootState = "GO_JUST_DEACTIVATED"
                   /\ go'.goState = go.prevGoState
                   /\ go'.cooldownTime = 0
              ELSE /\ go'.lootState = "GO_ACTIVATED"
                   /\ go'.goState = go.goState
                   /\ go'.cooldownTime = go.cooldownTime
        /\ (DoorOrButton /\ go.lootState = "GO_ACTIVATED" /\ go.cooldownTime = 0
               /\ go'.lootState # "GO_ACTIVATED")
              => goOp'.name = "ResetDoorOrButton"
      ]_vars

\* C35 witness: a tick at game time 3 has reset a door or button without an
\* auto-close time, which the caller had activated with a restore time.
C35_Witness ==
    /\ goOp.name = "Update" /\ DoorOrButton
    /\ go.lootTrace = << "GO_ACTIVATED", "GO_JUST_DEACTIVATED" >>
    /\ go.tpl.autoCloseTime = 0
    /\ now = 3

-----------------------------------------------------------------------------
(* C36: when a trap is activated                                            *)

\* This step is a tick on a trap.
TrapTick ==
    /\ Resident /\ go.tpl.type = "TRAP"
    /\ goOp'.name = "Update"
    /\ UNCHANGED <<now, masterRespawn>>

\* The tick casts or triggers the activated trap: a bomb with a spell, or a
\* trap whose triggering unit is found.
Fires ==
    /\ go.lootState = "GO_ACTIVATED"
    /\ \/ go.tpl.trapCharges = 2 /\ go.tpl.trapSpell
       \/ go.lootStateUnit /\ goOp'.unitFound

\* trap.cooldown, or 4 seconds if unset, in ms
TrapCooldownMS ==
    (IF go.tpl.trapCooldown # 0 THEN go.tpl.trapCooldown ELSE 4) * IN_MILLISECONDS

\* C36: a tick activates a trap that is in GO_READY only when game time has
\* reached its cooldown time; a bomb (2 charges) is armed with a cooldown of
\* 10 seconds by the tick that finds it in GO_NOT_READY and is then activated
\* without a target, any other trap only with a target found; the tick
\* that fires a trap with 1 charge leaves it in GO_JUST_DEACTIVATED and one
\* with 0 charges in GO_READY with cooldown time now + trap cooldown (4 s if
\* unset), so no tick activates it again before that time.
C36_TrapActivation ==
    [][ TrapTick =>
          /\ go.lootState = "GO_READY" =>
                /\ go'.lootState = "GO_ACTIVATED" =>
                      /\ GameTimeMS >= go.cooldownTime
                      /\ IF go.tpl.trapCharges = 2 THEN ~go'.lootStateUnit
                         ELSE goOp'.unitFound /\ go'.lootStateUnit
                /\ GameTimeMS < go.cooldownTime =>
                      go'.lootState = "GO_READY" /\ go'.cooldownTime = go.cooldownTime
                /\ (go.tpl.trapCharges = 2 /\ isSpawned(go)
                       /\ GameTimeMS >= go.cooldownTime) =>
                      go'.lootState = "GO_ACTIVATED"
          /\ (go.lootState = "GO_NOT_READY" /\ go.tpl.trapCharges = 2) =>
                /\ go'.cooldownTime = GameTimeMS + 10 * IN_MILLISECONDS
                /\ go'.lootState = "GO_READY"
          /\ (Fires /\ go.tpl.trapCharges = 1) =>
                go'.lootState = "GO_JUST_DEACTIVATED"
          /\ (Fires /\ go.tpl.trapCharges = 0) =>
                /\ go'.lootState = "GO_READY"
                /\ go'.cooldownTime = GameTimeMS + TrapCooldownMS
      ]_vars

\* C36 witness: a bomb armed at game time 1 has been activated by a tick, ten
\* seconds later, without a target.
C36_Witness ==
    /\ goOp.name = "Update"
    /\ go.tpl.trapCharges = 2
    /\ go.lootTrace = << "GO_READY", "GO_ACTIVATED" >>
    /\ ~go.lootStateUnit
    /\ go.cooldownTime = 11 * IN_MILLISECONDS
    /\ now = 11

-----------------------------------------------------------------------------
(* C37: an activated trap leaves GO_ACTIVATED                               *)

\* C37: the tick that finds a trap in GO_ACTIVATED leaves it in GO_READY or
\* GO_JUST_DEACTIVATED, whatever its charges and whether or not the unit
\* that triggered it is still found.
C37_ActivatedTrapLeaves ==
    (goOp.name = "Update" /\ go.tpl.type = "TRAP"
        /\ go.lootTrace[1] = "GO_ACTIVATED")
      => go.lootState \in {"GO_READY", "GO_JUST_DEACTIVATED"}

-----------------------------------------------------------------------------
(* C38: the delayed despawn                                                 *)

\* This step is a call of DespawnOrUnsummon, a tick.
DespawnRequest ==
    /\ Resident /\ goOp'.name = "DespawnOrUnsummon"
    /\ UNCHANGED <<now, masterRespawn>>

AnyTick ==
    /\ Resident /\ goOp'.name = "Update"
    /\ UNCHANGED <<now, masterRespawn>>

\* The instance has been deleted: on the removal list or handed to its pool.
Despawned(g) == g.disposal # "none"

\* C38: a request with a positive delay replaces the pending delay and the
\* stored forced respawn time if none is pending or the pending one is
\* longer, and otherwise changes neither; a request with delay 0 despawns at
\* once.  A tick takes its delta off a pending delay that is longer than the
\* delta and despawns, clearing the delay, when it is not: so the despawn
\* comes once, at the first tick at which the deltas add up to the delay.
\* A tick without a pending delay does not despawn.
C38_EarliestDespawnWins ==
    [][ /\ DespawnRequest =>
              IF goOp'.delay > 0
              THEN /\ ~Despawned(go')
                   /\ IF go.despawnDelay = 0 \/ go.despawnDelay > goOp'.delay
                      THEN /\ go'.despawnDelay = goOp'.delay
                           /\ go'.despawnRespawnTime = goOp'.forceRespawnTime
                      ELSE /\ go'.despawnDelay = go.despawnDelay
                           /\ go'.despawnRespawnTime = go.despawnRespawnTime
              ELSE Despawned(go')
        /\ AnyTick =>
              /\ go'.despawnRespawnTime = go.despawnRespawnTime
              /\ IF go.despawnDelay > goOp'.diff
                 THEN go'.despawnDelay = go.despawnDelay - goOp'.diff /\ ~go'.due
                 ELSE go'.despawnDelay = 0
              /\ go'.due <=> (go.despawnDelay # 0 /\ go.despawnDelay <= goOp'.diff)
              /\ go'.due => Despawned(go')
      ]_vars

\* C38 witness: with 500 ms of a delayed despawn left, a request with a
\* longer delay was made and changed nothing.
C38_Witness ==
    /\ goOp.name = "DespawnOrUnsummon"
    /\ Resident
    /\ go.despawnDelay = 500
    /\ goOp.delay > 500
    /\ goOp.forceRespawnTime # go.despawnRespawnTime

-----------------------------------------------------------------------------
(* C39: the respawn time an immediate despawn stores                        *)

\* C39: DespawnOrUnsummon without delay on an instance with spawn data that
\* is spawned by default stores, for its spawn, the respawn time now +
\* forceRespawnTime, or now + spawntimesecs of the spawn when no forced time
\* is given, in compatibility mode and in modern mode alike.
C39_ImmediateDespawnStoresRespawn ==
    [][ (DespawnRequest /\ goOp'.delay = 0 /\ go.hasData /\ go.spawnedByDefault) =>
            go'.store = now + (IF goOp'.forceRespawnTime > 0
                               THEN goOp'.forceRespawnTime
                               ELSE go.spawntimesecs)
      ]_vars

-----------------------------------------------------------------------------
(* C40: nothing happens to a deleted instance                               *)

\* C40: when the delayed despawn comes due inside a tick, Delete puts the
\* instance in GO_NOT_READY and on the removal list (or hands it to its
\* pool), and the rest of the tick makes no further loot-state transition.
C40_NoTransitionAfterDelete ==
    (goOp.name = "Update" /\ go.due) =>
        /\ Despawned(go)
        /\ go.lootTrace = << go.lootTrace[1], "GO_NOT_READY" >>

=============================================================================
